---- MODULE Spec2Model ----
(***************************************************************************)
(* interact-rs: the InteractNearest command (src/src/scripts.rs) over the  *)
(* host's visible-object list (src/src/game.rs).                           *)
(*                                                                         *)
(* Units.  An object of the snapshot carries its position in tenths of a   *)
(* yard: the coordinate 13 stands for the f32 nearest to 1.3, which is     *)
(* what the host's memory holds and what the accessors of game.rs return.  *)
(* The coordinates and distances the code computes with are f32, with the  *)
(* arithmetic of f32.  A Lua number (f64) is an integer number of tenths.  *)
(***************************************************************************)
EXTENDS Integers, Sequences, FiniteSets, TLC

(***************************************************************************)
(* Bounds of the model                                                     *)
(***************************************************************************)
\* The longest visible-object list of a world snapshot.
MaxObjects == 2

\* The largest coordinate, in tenths of a yard, of the positions
\* C3Vector::distance is applied to on its own.
MaxCoord == 1

\* How many times the host calls each of its two hooked routines.
MaxHostCalls == 3

\* How many threads of the host call LoadScriptFunctions at once.
MaxLoadThreads == 2

(***************************************************************************)
(* scripts.rs: constants                                                   *)
(***************************************************************************)
ERR_USAGE == "Usage: InteractNearest(autoloot)"

\* lua.rs: the message of the panic of api()
ERR_NOT_INITIALIZED == "Lua API not initialized - this is a bug in interact-rs"

\* 5.0f32 (0x40A00000)
MAX_DISTANCE == 1084227584

\* 1000.0f32 (0x447A0000)
INITIAL_DISTANCE == 1148846080

(***************************************************************************)
(* game.rs: ObjectType and its conversion from the raw u32                 *)
(***************************************************************************)
ObjectType ==
    {"None", "Item", "Container", "Unit", "Player", "GameObject",
     "DynamicObject", "Corpse"}

ObjectType_from(value) ==
    CASE value = 1 -> "Item"
      [] value = 2 -> "Container"
      [] value = 3 -> "Unit"
      [] value = 4 -> "Player"
      [] value = 5 -> "GameObject"
      [] value = 6 -> "DynamicObject"
      [] value = 7 -> "Corpse"
      [] OTHER -> "None"

(***************************************************************************)
(* f32: the IEEE 754 single-precision numbers in which game.rs holds       *)
(* coordinates and distances, and their arithmetic, rounded to nearest     *)
(* (ties to even) after every operation as the processor does.             *)
(*                                                                         *)
(* An f32 is written as one integer: its bit pattern without the sign bit  *)
(* (8 bits of exponent, 23 bits of fraction), negated when the sign bit is *)
(* set.  The order of these integers is the order of the numbers.  The two *)
(* zeros are both written 0: no operation here tells them apart.  Every    *)
(* f32 that is not a number is written as the one pattern 0x7FC00000.      *)
(***************************************************************************)
\* f32::NAN (0x7FC00000)
F32_NAN == 2143289344

\* f32::INFINITY (0x7F800000)
F32_INFINITY == 2139095040

\* f32::MAX (0x7F7FFFFF), the largest finite f32
F32_MAX == 2139095039

F32_is_nan(v) == v = F32_NAN

F32_is_infinite(v) == v = F32_INFINITY \/ v = -F32_INFINITY

F32_is_finite(v) == ~F32_is_nan(v) /\ ~F32_is_infinite(v)

\* The f32 comparisons ==, < and <=: false as soon as one side is not a number.
F32_eq(u, v) == ~F32_is_nan(u) /\ ~F32_is_nan(v) /\ u = v

F32_lt(u, v) == ~F32_is_nan(u) /\ ~F32_is_nan(v) /\ u < v

F32_le(u, v) == ~F32_is_nan(u) /\ ~F32_is_nan(v) /\ u <= v

F32_abs(v) == IF v < 0 THEN -v ELSE v

F32_neg(v) == IF F32_is_nan(v) THEN v ELSE -v

\* v with the sign of s
F32_signed(s, v) == IF s < 0 THEN -v ELSE v

RECURSIVE F32_bit_length(_)
\* The number of bits of n, n >= 0.
F32_bit_length(n) == IF n = 0 THEN 0 ELSE 1 + F32_bit_length(n \div 2)

\* A finite f32 other than zero, of bit pattern b, is m * 2^e with the 24-bit
\* significand m (2^23 <= m < 2^24); the significand of a subnormal number is
\* shifted up to that width.
F32_raw_significand(b) == IF b < 8388608 THEN b ELSE 8388608 + (b % 8388608)

F32_raw_exponent(b) == IF b < 8388608 THEN -149 ELSE b \div 8388608 - 150

F32_significand(b) ==
    F32_raw_significand(b) * 2^(24 - F32_bit_length(F32_raw_significand(b)))

F32_exponent(b) ==
    F32_raw_exponent(b) - (24 - F32_bit_length(F32_raw_significand(b)))

\* The bit pattern of q * 2^e, for q <= 2^24 and e >= -149, with q < 2^23
\* only when e = -149 (zero and the subnormal numbers); infinity when the
\* exponent is beyond the largest.
F32_pack(q, e) ==
    LET m == IF q = 16777216 THEN 8388608 ELSE q
        x == IF q = 16777216 THEN e + 1 ELSE e
    IN  IF m < 8388608 THEN m
        ELSE IF x + 150 >= 255 THEN F32_INFINITY
        ELSE (x + 150) * 8388608 + (m - 8388608)

\* The bit pattern of the f32 nearest to the number m * 2^e (0 <= m < 2^30),
\* or, when sticky is set, to a number strictly between m * 2^e and
\* (m + 1) * 2^e; a number halfway between two f32 goes to the one whose
\* last bit is 0.
F32_round(m, e, sticky) ==
    LET n == F32_bit_length(m)
        t == IF n - 24 > -149 - e THEN n - 24 ELSE -149 - e
    IN  IF m = 0 THEN 0
        ELSE IF t <= 0 THEN F32_pack(m * 2^(-t), e + t)
        ELSE IF t > 30 THEN 0
        ELSE LET q == m \div 2^t
                 r == m % 2^t
                 h == 2^(t - 1)
                 up == r > h \/ (r = h /\ (sticky \/ q % 2 = 1))
             IN  F32_pack(IF up THEN q + 1 ELSE q, e + t)

\* u + v.  The operand of smaller magnitude is aligned under three more bits
\* of the larger one, the last of them set when a bit was shifted out.
F32_add(u, v) ==
    IF F32_is_nan(u) \/ F32_is_nan(v) THEN F32_NAN
    ELSE IF F32_is_infinite(u)
         THEN IF F32_is_infinite(v) /\ v # u THEN F32_NAN ELSE u
    ELSE IF F32_is_infinite(v) THEN v
    ELSE IF u = 0 THEN v
    ELSE IF v = 0 THEN u
    ELSE LET a == IF F32_abs(u) >= F32_abs(v) THEN u ELSE v
             b == IF F32_abs(u) >= F32_abs(v) THEN v ELSE u
             ma == F32_raw_significand(F32_abs(a))
             ea == F32_raw_exponent(F32_abs(a))
             mb == F32_raw_significand(F32_abs(b))
             eb == F32_raw_exponent(F32_abs(b))
             d == ea - eb
             lo == IF d > 27 THEN 0 ELSE (mb * 8) \div 2^d
             lost == IF d > 27 THEN TRUE ELSE (mb * 8) % 2^d # 0
             B == IF lost /\ lo % 2 = 0 THEN lo + 1 ELSE lo
             S == IF (a < 0) = (b < 0) THEN ma * 8 + B ELSE ma * 8 - B
         IN  F32_signed(a, F32_round(S, ea - 3, FALSE))

\* u - v
F32_sub(u, v) == F32_add(u, F32_neg(v))

\* u * v.  The 48-bit product of the significands is built from their 12-bit
\* halves; its upper 30 bits are rounded, the lower 18 make the sticky bit.
F32_mul(u, v) ==
    IF F32_is_nan(u) \/ F32_is_nan(v) THEN F32_NAN
    ELSE IF F32_is_infinite(u) \/ F32_is_infinite(v)
         THEN IF u = 0 \/ v = 0 THEN F32_NAN
              ELSE IF (u < 0) = (v < 0) THEN F32_INFINITY ELSE -F32_INFINITY
    ELSE IF u = 0 \/ v = 0 THEN 0
    ELSE LET m1 == F32_significand(F32_abs(u))
             m2 == F32_significand(F32_abs(v))
             h1 == m1 \div 4096
             l1 == m1 % 4096
             h2 == m2 \div 4096
             l2 == m2 % 4096
             low == l1 * l2
             mid == h1 * l2 + l1 * h2 + low \div 4096
             upper == h1 * h2 + mid \div 4096
             rest == (mid % 4096) * 4096 + (low % 4096)
             mag == F32_round(upper * 64 + rest \div 262144,
                              F32_exponent(F32_abs(u)) + F32_exponent(F32_abs(v)) + 18,
                              rest % 262144 # 0)
         IN  IF (u < 0) = (v < 0) THEN mag ELSE -mag

RECURSIVE F32_isqrt(_, _, _, _)
\* The integer square root of n * 4^14 and its remainder, one bit of the root
\* for each pair of bits of the radicand: t pairs are left, the root so far
\* is root and the remainder so far is rem.
F32_isqrt(n, t, rem, root) ==
    IF t = 0 THEN [root |-> root, rem |-> rem]
    ELSE LET pair == IF t > 14 THEN (n \div 4^(t - 15)) % 4 ELSE 0
             r == rem * 4 + pair
             trial == root * 4 + 1
         IN  IF r >= trial THEN F32_isqrt(n, t - 1, r - trial, root * 2 + 1)
                           ELSE F32_isqrt(n, t - 1, r, root * 2)

\* f32::sqrt: not a number for a negative operand.
F32_sqrt(v) ==
    IF F32_is_nan(v) \/ v < 0 THEN F32_NAN
    ELSE IF v = F32_INFINITY THEN F32_INFINITY
    ELSE IF v = 0 THEN 0
    ELSE LET m == F32_significand(v)
             e == F32_exponent(v)
             odd == e % 2 = 1
             s == F32_isqrt(IF odd THEN 2 * m ELSE m, 27, 0, 0)
         IN  F32_round(s.root, (IF odd THEN e - 1 ELSE e) \div 2 - 14, s.rem # 0)

\* The f32 nearest to n tenths: how a coordinate or a distance written in
\* decimal (1.3 is 13) is held in memory.
F32_from_tenths(n) ==
    IF n = 0 THEN 0
    ELSE LET a == IF n < 0 THEN -n ELSE n
             k == 30 - F32_bit_length(a)
             num == a * 2^k
         IN  F32_signed(n, F32_round(num \div 10, -k, num % 10 # 0))

(***************************************************************************)
(* game.rs: C3Vector::distance                                             *)
(***************************************************************************)
\* A C3Vector whose coordinates are given in tenths of a yard.
C3Vector_from_tenths(pos) ==
    [x |-> F32_from_tenths(pos.x), y |-> F32_from_tenths(pos.y),
     z |-> F32_from_tenths(pos.z)]

\* Mutant of C3Vector_distance: dx is other.x, self.x is not subtracted.
C3Vector_distance_no_self_x(self, other) ==
    LET dx == other.x
        dy == F32_sub(other.y, self.y)
        dz == F32_sub(other.z, self.z)
    IN  F32_sqrt(F32_add(F32_add(F32_mul(dx, dx), F32_mul(dy, dy)), F32_mul(dz, dz)))

C3Vector_distance(self, other) ==
    LET dx == F32_sub(other.x, self.x)
        dy == F32_sub(other.y, self.y)
        dz == F32_sub(other.z, self.z)
    IN  F32_sqrt(F32_add(F32_add(F32_mul(dx, dx), F32_mul(dy, dy)), F32_mul(dz, dz)))

(***************************************************************************)
(* game.rs: the exclusion set                                              *)
(***************************************************************************)
BLACKLISTED_OBJECTS == <<179830, 179831, 179785, 179786>>

\* static BLACKLIST: Lazy<HashSet<u32>>, before its first use
Lazy_new == [init |-> FALSE, value |-> {}]

\* Mutant of BLACKLIST_collect: the last identifier is left out.
BLACKLIST_collect_short ==
    {BLACKLISTED_OBJECTS[i] : i \in 1..(Len(BLACKLISTED_OBJECTS) - 1)}

\* The closure that builds the set: BLACKLISTED_OBJECTS.iter().copied().collect()
BLACKLIST_collect == {BLACKLISTED_OBJECTS[i] : i \in DOMAIN BLACKLISTED_OBJECTS}

\* Lazy::force: the closure runs on the first use only.
Lazy_force(lazy) ==
    IF lazy.init THEN lazy ELSE [init |-> TRUE, value |-> BLACKLIST_collect]

\* BLACKLIST.contains(&id), on the static as it is after the use
is_blacklisted(lazy, id) == id \in Lazy_force(lazy).value

(***************************************************************************)
(* scripts.rs: Candidate                                                   *)
(***************************************************************************)
\* Mutant of Candidate_new: the derived Default (distance 0.0) instead of new().
Candidate_default ==
    [guid |-> 0, pointer |-> 0, obj_type |-> "None", distance |-> 0]

Candidate_new ==
    [guid |-> 0, pointer |-> 0, obj_type |-> "None", distance |-> INITIAL_DISTANCE]

Candidate_is_valid(self) == self.obj_type # "None"

\* Mutant of Candidate_update: the first entity recorded is kept.
Candidate_update_first(self, guid, pointer, obj_type, distance) ==
    IF self.obj_type = "None" /\ F32_lt(distance, self.distance)
    THEN [guid |-> guid, pointer |-> pointer, obj_type |-> obj_type,
          distance |-> distance]
    ELSE self

\* Mutant of Candidate_update: every call records the entity, closer or not.
Candidate_update_any(self, guid, pointer, obj_type, distance) ==
    [guid |-> guid, pointer |-> pointer, obj_type |-> obj_type, distance |-> distance]

\* Mutant of Candidate_update: `<=` for `<`, so that a tie replaces the incumbent.
Candidate_update_le(self, guid, pointer, obj_type, distance) ==
    IF F32_le(distance, self.distance)
    THEN [guid |-> guid, pointer |-> pointer, obj_type |-> obj_type,
          distance |-> distance]
    ELSE self

Candidate_update(self, guid, pointer, obj_type, distance) ==
    IF F32_lt(distance, self.distance)
    THEN [guid |-> guid, pointer |-> pointer, obj_type |-> obj_type,
          distance |-> distance]
    ELSE self

(***************************************************************************)
(* The host: the world snapshot the accessors of game.rs read.             *)
(* An object is a record of the fields the code reads from it; its address *)
(* is the list link that leads to it.  The object manager holds the        *)
(* objects `objs`; the visible-object list links the first `end` of them   *)
(* and then holds the terminal link.                                       *)
(***************************************************************************)
\* bit 26 of the unit flags (0x0400_0000)
UNIT_FLAG_SKINNABLE == 67108864

\* The agent (the player character): identifier, address and position.
Player == [guid |-> 1, addr |-> 8, pos |-> [x |-> 10, y |-> 20, z |-> 5]]

\* A position given by its offset from the agent, in tenths of a yard.
At(dx, dy, dz) ==
    [x |-> Player.pos.x + dx, y |-> Player.pos.y + dy, z |-> Player.pos.z + dz]

Obj(guid, type_raw, pos, health, dynamic_flags, unit_flags, summoned_by, go_id, resolves) ==
    [guid |-> guid, type_raw |-> type_raw, pos |-> pos, health |-> health,
     dynamic_flags |-> dynamic_flags, unit_flags |-> unit_flags,
     summoned_by |-> summoned_by, go_id |-> go_id, resolves |-> resolves]

\* The objects a snapshot's list is drawn from.
Catalogue ==
    { \* creatures (raw kind 3)
      Obj(11, 3, At(49, 0, 0), 0, 1, 0, 0, 0, TRUE),        \* lootable remains at 4.9
      Obj(12, 3, At(0, -30, 0), 0, 1, UNIT_FLAG_SKINNABLE, 0, 0, TRUE), \* lootable and skinnable at 3.0
      Obj(13, 3, At(0, 0, 49), 0, 3, 0, 0, 0, TRUE),        \* lootable remains at 4.9 again
      Obj(14, 3, At(0, 0, 10), 0, 0, UNIT_FLAG_SKINNABLE, 0, 0, TRUE),  \* skinnable remains at 1.0
      Obj(15, 3, At(3, 4, 0), 0, 2, 1, 0, 0, TRUE),         \* remains with neither flag at 0.5
      Obj(16, 3, At(47, 16, 5), 1, 1, UNIT_FLAG_SKINNABLE, 0, 0, TRUE), \* living, both flags, at 4.99
      Obj(17, 3, At(-10, 0, 0), 100, 0, 0, 0, 0, TRUE),     \* living at 1.0
      Obj(18, 3, At(0, 20, 0), -1, 1, UNIT_FLAG_SKINNABLE, 0, 0, TRUE), \* negative vitality at 2.0
      Obj(19, 3, At(60, 0, 0), 0, 1, 0, 0, 0, TRUE),        \* lootable remains at 6.0
      Obj(20, 3, At(30, 40, 0), 7, 0, 0, 0, 0, TRUE),       \* living at exactly 5.0
      Obj(21, 3, At(30, 40, 1), 7, 0, 0, 0, 0, TRUE),       \* living just beyond 5.0
      \* world objects (raw kind 5)
      Obj(31, 5, At(5, 0, 0), 0, 0, 0, 0, 2000, TRUE),      \* at 0.5
      Obj(32, 5, At(0, 5, 0), 0, 0, 0, 0, 179830, TRUE),    \* excluded, at 0.5
      Obj(33, 5, At(0, 0, -60), 0, 0, 0, 0, 2001, TRUE),    \* at 6.0
      Obj(34, 5, At(0, 3, 0), 0, 0, 0, 0, 179786, TRUE),    \* excluded, at 0.3
      Obj(35, 5, At(-10, 0, 0), 0, 0, 0, 0, 179829, TRUE),  \* at 1.0
      Obj(36, 5, At(3, 4, 0), 0, 0, 0, 0, 2003, TRUE),      \* at 0.5 in decimal, 0.50000006 in f32
      \* summoning
      Obj(41, 4, At(0, 20, 0), 100, 0, 0, 0, 0, TRUE),      \* another player character
      Obj(42, 3, At(3, 0, 0), 0, 1, 0, 41, 0, TRUE),        \* lootable remains summoned by 41, at 0.3
      Obj(43, 5, At(0, 0, 4), 0, 0, 0, 41, 2002, TRUE),     \* world object summoned by 41, at 0.4
      Obj(44, 3, At(0, 0, 20), 50, 0, 0, 17, 0, TRUE),      \* living, summoned by creature 17, at 2.0
      Obj(45, 3, At(0, -1, 0), 30, 0, 0, 1, 0, TRUE),       \* living, summoned by the agent, at 0.1
      \* an object that despawned: its identifier no longer resolves
      Obj(51, 3, At(2, 0, 0), 0, 1, 0, 0, 0, FALSE),        \* lootable remains at 0.2
      \* other kinds
      Obj(61, 7, At(5, 0, 0), 0, 1, 0, 0, 0, TRUE),         \* Corpse kind at 0.5
      Obj(62, 8, At(5, 0, 0), 1, 0, 0, 0, 2000, TRUE) }     \* unrecognized raw kind at 0.5

\* Objects of every raw kind 0..8, close to the agent, each with vitality zero
\* and with vitality 5, with the lootable and the skinnable flag set and a type
\* id that is not excluded.
KindCatalogue ==
    { Obj(70 + 10 * h + k, k, At(9 - k, 0, 0), 5 * h, 1, UNIT_FLAG_SKINNABLE, 0, 2000, TRUE) :
        k \in 0..8, h \in 0..1 }

\* Lists of distinct objects of the set cat, no longer than n.
ListsOver(cat, n) ==
    UNION { { s \in [1..k -> cat] : \A i, j \in 1..k : i # j => s[i].guid # s[j].guid }
            : k \in 0..n }

\* Lists of distinct objects of the catalogue, no longer than n.
ObjectLists(n) == ListsOver(Catalogue, n)

\* How the list ends: 0 for a null link, 1 for a link with its lowest bit set.
TerminalLinks == {0, 1}

\* The list ends after all the objects or before the last of them.
ListEnds(objs) == {n \in {Len(objs) - 1, Len(objs)} : n >= 0}

\* The snapshots whose object manager holds one of the lists `lists`, the
\* handle GetPtrForGuid resolves being the address the list links.
WorldsOver(lists) ==
    { w \in [objs : lists, end : 0..MaxObjects,
              term : TerminalLinks, player_ok : BOOLEAN, handle_offset : {0},
              player_at : {Player.pos}] :
        w.end \in ListEnds(w.objs) }

Worlds == WorldsOver(ObjectLists(MaxObjects))

\* Snapshots with objects of every kind.
KindWorlds == WorldsOver(ListsOver(KindCatalogue, MaxObjects))

\* A few objects for the snapshots that follow one another: lootable remains
\* at 4.9, living creatures at 1.0 and at 2.0 and a world object at 0.5.
SceneCatalogue == {o \in Catalogue : o.guid \in {11, 17, 31, 44}}

\* Snapshots of the scene, with the whole object manager in the list.
SceneWorlds ==
    {w \in WorldsOver(ListsOver(SceneCatalogue, MaxObjects)) :
        w.term = 0 /\ w.end = Len(w.objs)}

\* Where the agent stands in the snapshots of the range: at (1.3, 2.4, 0.5).
RangeAgent == [x |-> 13, y |-> 24, z |-> 5]

\* A position given by its offset from that place, in tenths of a yard.
AtRange(dx, dy, dz) ==
    [x |-> RangeAgent.x + dx, y |-> RangeAgent.y + dy, z |-> RangeAgent.z + dz]

\* Objects at the range or next to it.  Every offset but the last has the
\* length 5.0 in decimal; the distance is what C3Vector::distance computes
\* from the f32 coordinates: 5.0, the f32 before it or the f32 after it.
RangeCatalogue ==
    { Obj(81, 3, AtRange(30, 40, 0), 7, 0, 0, 0, 0, TRUE),      \* living at 5.0
      Obj(82, 5, AtRange(0, 0, 50), 0, 0, 0, 0, 2000, TRUE),    \* world object at 5.0
      Obj(83, 3, AtRange(30, 24, 32), 7, 0, 0, 0, 0, TRUE),     \* living at 5.0000005
      Obj(84, 3, AtRange(30, -24, 32), 0, 1, 0, 0, 0, TRUE),    \* lootable remains at 5.0000005
      Obj(85, 5, AtRange(30, 24, -32), 0, 0, 0, 0, 2001, TRUE), \* world object at 5.0000005
      Obj(86, 3, AtRange(0, 48, 14), 7, 0, 0, 0, 0, TRUE),      \* living at 4.9999995
      Obj(87, 3, AtRange(30, 40, 1), 7, 0, 0, 0, 0, TRUE) }     \* living at 5.001

\* Snapshots of the range, the agent standing at RangeAgent.
RangeWorlds ==
    {[w EXCEPT !.player_at = RangeAgent] :
        w \in WorldsOver(ListsOver(RangeCatalogue, MaxObjects))}

\* How far the handle GetPtrForGuid resolves lies from the address the list
\* links for the same object: the code takes both for references to the
\* object, the host decides whether they are the same number.
HandleOffsets == {0, 4}

\* Snapshots of the scene in which the two references may differ.
HandleWorlds ==
    {[w EXCEPT !.handle_offset = d] : w \in SceneWorlds, d \in HandleOffsets}

\* The address of a list entry: even and not null.
Link(o) == 16 * o.guid

\* The handle GetPtrForGuid resolves for an object.
Handle(w, o) == Link(o) + w.handle_offset

\* The link after the last entry of the list: null, or tagged in its lowest
\* bit, the tag being set on the address of what lies behind the end.
TermLink(w) ==
    IF w.term = 0 THEN 0
    ELSE IF w.end < Len(w.objs) THEN Link(w.objs[w.end + 1]) + 1
    ELSE 1

\* An object lies at the address: the agent, a list link or a resolved handle.
Mapped(w, addr) ==
    \/ addr = Player.addr
    \/ \E i \in DOMAIN w.objs : addr \in {Link(w.objs[i]), Handle(w, w.objs[i])}

\* What read_offset gives at an address where no object lies: a value the
\* snapshot does not determine (the bytes that happen to be there).
Undefined == "undefined"

\* What the reads of read_offset do at an address: "read" where an object
\* lies.  Anywhere else (a null link, a link with its lowest bit set, any
\* other address) the behaviour is undefined: the process dies ("fault": the
\* null page, the alignment check of a debug build, an unmapped page) or the
\* reads return values that nothing determines ("undefined"), after which
\* the model does not follow the program.  At the null address the process
\* dies.
MemoryReads(w, addr) ==
    IF Mapped(w, addr) THEN {"read"}
    ELSE IF addr = 0 THEN {"fault"}
    ELSE {"fault", Undefined}

\* The object that lies at the address.
ObjAt(w, addr) ==
    IF addr = Player.addr
    THEN Obj(Player.guid, 4, w.player_at, 100, 0, 0, 0, 0, w.player_ok)
    ELSE w.objs[CHOOSE i \in DOMAIN w.objs :
                    addr \in {Link(w.objs[i]), Handle(w, w.objs[i])}]

\* The place in the object manager of the object a link points to (0: none).
Index(w, addr) ==
    IF \E i \in DOMAIN w.objs : Link(w.objs[i]) = addr
    THEN CHOOSE i \in DOMAIN w.objs : Link(w.objs[i]) = addr
    ELSE 0

(***************************************************************************)
(* game.rs: accessors                                                      *)
(***************************************************************************)
get_player_guid(w) == Player.guid

\* GetPtrForGuid: the address of the object, 0 (None) when it is not found.
get_object_pointer(w, guid) ==
    IF guid = Player.guid
    THEN (IF w.player_ok THEN Player.addr ELSE 0)
    ELSE IF \E i \in DOMAIN w.objs : w.objs[i].guid = guid /\ w.objs[i].resolves
         THEN Handle(w, w.objs[CHOOSE i \in DOMAIN w.objs : w.objs[i].guid = guid])
         ELSE 0

get_first_object(w) == IF w.end = 0 THEN TermLink(w) ELSE Link(w.objs[1])

get_next_object(w, current) ==
    LET i == Index(w, current)
    IN  IF i = 0 THEN Undefined
        ELSE IF i = w.end THEN TermLink(w)
        ELSE IF i < Len(w.objs) THEN Link(w.objs[i + 1])
        ELSE 0

get_object_guid(w, current) ==
    IF Mapped(w, current) THEN ObjAt(w, current).guid ELSE Undefined

get_object_type(w, pointer) ==
    IF Mapped(w, pointer) THEN ObjectType_from(ObjAt(w, pointer).type_raw)
    ELSE Undefined

get_summoned_by_guid(w, pointer) ==
    IF Mapped(w, pointer) THEN ObjAt(w, pointer).summoned_by ELSE Undefined

get_gameobject_id(w, pointer) ==
    IF Mapped(w, pointer) THEN ObjAt(w, pointer).go_id ELSE Undefined

get_unit_position(w, unit) ==
    IF Mapped(w, unit) THEN C3Vector_from_tenths(ObjAt(w, unit).pos) ELSE Undefined

get_object_position(w, pointer) ==
    IF Mapped(w, pointer) THEN C3Vector_from_tenths(ObjAt(w, pointer).pos) ELSE Undefined

get_unit_health(w, unit) ==
    IF Mapped(w, unit) THEN ObjAt(w, unit).health ELSE Undefined

\* bit 0 of the dynamic flags
is_unit_lootable(w, unit) ==
    IF Mapped(w, unit) THEN ObjAt(w, unit).dynamic_flags % 2 # 0 ELSE Undefined

\* bit 26 of the unit flags
is_unit_skinnable(w, unit) ==
    IF Mapped(w, unit)
    THEN (ObjAt(w, unit).unit_flags \div UNIT_FLAG_SKINNABLE) % 2 # 0
    ELSE Undefined

(***************************************************************************)
(* lua.rs: the argument of the command as the host's Lua API reports it    *)
(***************************************************************************)
\* absent, a string, and the numbers 0, 1, 2.7 and -1.5
LuaArgs ==
    { [kind |-> "none", isnumber |-> 0, tonumber |-> 0],
      [kind |-> "string", isnumber |-> 0, tonumber |-> 0],
      [kind |-> "number", isnumber |-> 1, tonumber |-> 0],
      [kind |-> "number", isnumber |-> 1, tonumber |-> 27],
      [kind |-> "number", isnumber |-> 1, tonumber |-> -15] }

lua_isnumber(arg) == arg.isnumber # 0

lua_tonumber(arg) == arg.tonumber

\* `as i32` on an f64: truncation toward zero
AsI32(n) == IF n >= 0 THEN n \div 10 ELSE -((-n) \div 10)

(***************************************************************************)
(* scripts.rs: is_player_summoned, process_unit                            *)
(***************************************************************************)
\* Mutant of is_player_summoned: the kind of the object itself is tested, not
\* the kind of its summoner.
is_player_summoned_self(w, pointer) ==
    LET summoned_by_guid == get_summoned_by_guid(w, pointer)
    IN  IF summoned_by_guid = 0 THEN FALSE
        ELSE LET summoned_by == get_object_pointer(w, summoned_by_guid)
             IN  IF summoned_by = 0 THEN FALSE
                 ELSE get_object_type(w, pointer) = "Player"

\* Mutant of is_player_summoned: any non-zero summoned-by identifier excludes.
is_player_summoned_any(w, pointer) ==
    LET summoned_by_guid == get_summoned_by_guid(w, pointer)
    IN  summoned_by_guid # 0

is_player_summoned(w, pointer) ==
    LET summoned_by_guid == get_summoned_by_guid(w, pointer)
    IN  IF summoned_by_guid = 0 THEN FALSE
        ELSE LET summoned_by == get_object_pointer(w, summoned_by_guid)
             IN  IF summoned_by = 0 THEN FALSE
                 ELSE get_object_type(w, summoned_by) = "Player"

\* A call candidate.update(guid, pointer, obj_type, distance) on the candidate
\* `slot` of the frame f: the candidate after it, and the call in f.updates.
update_call(f, slot, guid, pointer, obj_type, distance) ==
    [f EXCEPT ![slot] = Candidate_update(f[slot], guid, pointer, obj_type, distance),
              !.updates = Append(@, [cand |-> slot, guid |-> guid, pointer |-> pointer,
                                     obj_type |-> obj_type, distance |-> distance])]

\* Mutant of process_unit: every vitality other than zero counts as living.
process_unit_else_alive(w, current, guid, obj_type, distance, f) ==
    LET health == get_unit_health(w, current)
    IN  IF health = 0
        THEN IF is_unit_lootable(w, current)
             THEN update_call(f, "lootable", guid, current, obj_type, distance)
             ELSE IF is_unit_skinnable(w, current)
             THEN update_call(f, "skinnable", guid, current, obj_type, distance)
             ELSE f
        ELSE update_call(f, "alive_unit", guid, current, obj_type, distance)

\* Mutant of process_unit: the flags are tested before the vitality.
process_unit_flags_first(w, current, guid, obj_type, distance, f) ==
    LET health == get_unit_health(w, current)
    IN  IF is_unit_lootable(w, current)
        THEN update_call(f, "lootable", guid, current, obj_type, distance)
        ELSE IF is_unit_skinnable(w, current)
        THEN update_call(f, "skinnable", guid, current, obj_type, distance)
        ELSE IF health > 0
        THEN update_call(f, "alive_unit", guid, current, obj_type, distance)
        ELSE f

\* Mutant of process_unit: the two flags of remains are tested independently.
process_unit_both(w, current, guid, obj_type, distance, f) ==
    LET health == get_unit_health(w, current)
    IN  IF health = 0
        THEN LET g == IF is_unit_lootable(w, current)
                      THEN update_call(f, "lootable", guid, current, obj_type, distance)
                      ELSE f
             IN  IF is_unit_skinnable(w, current)
                 THEN update_call(g, "skinnable", guid, current, obj_type, distance)
                 ELSE g
        ELSE IF health > 0
        THEN update_call(f, "alive_unit", guid, current, obj_type, distance)
        ELSE f

\* The frame after process_unit(current, guid, obj_type, distance, &mut lootable,
\* &mut skinnable, &mut alive_unit).
process_unit(w, current, guid, obj_type, distance, f) ==
    LET health == get_unit_health(w, current)
    IN  IF health = 0
        THEN LET is_lootable == is_unit_lootable(w, current)
                 is_skinnable == is_unit_skinnable(w, current)
             IN  IF is_lootable
                 THEN update_call(f, "lootable", guid, current, obj_type, distance)
                 ELSE IF is_skinnable
                 THEN update_call(f, "skinnable", guid, current, obj_type, distance)
                 ELSE f
        ELSE IF health > 0
        THEN update_call(f, "alive_unit", guid, current, obj_type, distance)
        ELSE f

\* Mutant of within_range: the sentinel distance is taken for the range.
within_range_sentinel(distance) == F32_le(distance, INITIAL_DISTANCE)

\* Mutant of within_range: an object at exactly the range is out of range.
within_range_strict(distance) == F32_lt(distance, MAX_DISTANCE)

\* The check that an object is within interaction range.
within_range(distance) == F32_le(distance, MAX_DISTANCE)

\* Mutant of scan_entry: every kind other than GameObject is handled as a Unit.
scan_entry_any_kind(w, plpos, current, f) ==
    LET guid == get_object_guid(w, current)
        pointer_raw == get_object_pointer(w, guid)
    IN  IF pointer_raw = 0 THEN f
        ELSE LET obj_type == get_object_type(w, pointer_raw)
             IN  IF is_player_summoned(w, pointer_raw) THEN f
                 ELSE LET obj_pos == IF obj_type # "GameObject"
                                     THEN get_unit_position(w, current)
                                     ELSE get_object_position(w, current)
                          distance == C3Vector_distance(plpos, obj_pos)
                      IN  IF within_range(distance)
                          THEN IF obj_type # "GameObject"
                               THEN process_unit(w, current, guid, obj_type, distance, f)
                               ELSE LET id == get_gameobject_id(w, pointer_raw)
                                        g == [f EXCEPT !.blacklist = Lazy_force(@)]
                                    IN  IF ~is_blacklisted(f.blacklist, id)
                                        THEN update_call(g, "gameobject", guid, pointer_raw,
                                                         obj_type, distance)
                                        ELSE g
                          ELSE f

\* One iteration of the traversal loop of find_best_candidate: the frame (the
\* four candidates, the calls of update made, the BLACKLIST static) after the
\* list entry at `current` has been examined.
\* Mutant of scan_entry: the exclusion set is not consulted.
scan_entry_no_blacklist(w, plpos, current, f) ==
    LET guid == get_object_guid(w, current)
        pointer_raw == get_object_pointer(w, guid)
    IN  IF pointer_raw = 0 THEN f
        ELSE LET obj_type == get_object_type(w, pointer_raw)
             IN  IF is_player_summoned(w, pointer_raw) THEN f
                 ELSE IF obj_type \notin {"Unit", "GameObject"} THEN f
                 ELSE LET obj_pos == IF obj_type = "Unit"
                                     THEN get_unit_position(w, current)
                                     ELSE get_object_position(w, current)
                          distance == C3Vector_distance(plpos, obj_pos)
                      IN  IF within_range(distance)
                          THEN IF obj_type = "Unit"
                               THEN process_unit(w, current, guid, obj_type, distance, f)
                               ELSE LET id == get_gameobject_id(w, pointer_raw)
                                        g == [f EXCEPT !.blacklist = Lazy_force(@)]
                                    IN  IF TRUE
                                        THEN update_call(g, "gameobject", guid, pointer_raw,
                                                         obj_type, distance)
                                        ELSE g
                          ELSE f

scan_entry(w, plpos, current, f) ==
    LET guid == get_object_guid(w, current)
        pointer_raw == get_object_pointer(w, guid)
    IN  IF pointer_raw = 0 THEN f
        ELSE LET obj_type == get_object_type(w, pointer_raw)
             IN  IF is_player_summoned(w, pointer_raw) THEN f
                 ELSE IF obj_type \notin {"Unit", "GameObject"} THEN f
                 ELSE LET obj_pos == IF obj_type = "Unit"
                                     THEN get_unit_position(w, current)
                                     ELSE get_object_position(w, current)
                          distance == C3Vector_distance(plpos, obj_pos)
                      IN  IF within_range(distance)
                          THEN IF obj_type = "Unit"
                               THEN process_unit(w, current, guid, obj_type, distance, f)
                               ELSE LET id == get_gameobject_id(w, pointer_raw)
                                        g == [f EXCEPT !.blacklist = Lazy_force(@)]
                                    IN  IF ~is_blacklisted(f.blacklist, id)
                                        THEN update_call(g, "gameobject", guid, pointer_raw,
                                                         obj_type, distance)
                                        ELSE g
                          ELSE f

\* The selection by priority that ends find_best_candidate.
\* Mutant of select_by_priority: world objects are tried before lootable remains.
select_by_priority_swapped(c) ==
    IF Candidate_is_valid(c.gameobject) THEN c.gameobject
    ELSE IF Candidate_is_valid(c.lootable) THEN c.lootable
    ELSE IF Candidate_is_valid(c.skinnable) THEN c.skinnable
    ELSE IF Candidate_is_valid(c.alive_unit) THEN c.alive_unit
    ELSE Candidate_new

\* Candidate_new stands for None: no candidate is valid.
select_by_priority(c) ==
    IF Candidate_is_valid(c.lootable) THEN c.lootable
    ELSE IF Candidate_is_valid(c.gameobject) THEN c.gameobject
    ELSE IF Candidate_is_valid(c.skinnable) THEN c.skinnable
    ELSE IF Candidate_is_valid(c.alive_unit) THEN c.alive_unit
    ELSE Candidate_new

(***************************************************************************)
(* State                                                                   *)
(***************************************************************************)
VARIABLES
    world,       \* the host's world snapshot
    BLACKLIST,   \* game.rs: the lazily built exclusion set, a static of the process
    pc,          \* where the command is: idle, find, scan, act, returned, error
    in_world,    \* the IsIngame flag read by this invocation
    arg,         \* the first argument of this invocation
    autoloot,    \* find_best_candidate: the argument as an i32
    player_pos,  \* find_best_candidate: the agent's position
    current,     \* find_best_candidate: the list link under examination
    cands,       \* find_best_candidate: lootable, gameobject, skinnable, alive_unit
    updates,     \* the calls of Candidate::update this invocation has made, in order
    examined,    \* the list links whose entry the loop body has run on, in order
    found,       \* what find_best_candidate returned: "pending", "None" or "Some"
    candidate,   \* the winner when found = "Some"
    calls,       \* the host primitives this invocation has called, in order
    ret,         \* the value returned to the host (-1: has not returned)
    err,         \* the scripting error raised ("" when none)
    SysMsgInitHook,           \* hooks.rs: the detour of SysMsgInitialize
    LoadScriptFunctionsHook,  \* hooks.rs: the detour of LoadScriptFunctions
    HOOKS_INITIALIZED,        \* hooks.rs: the AtomicBool
    LUA_API,                  \* lua.rs: the OnceCell holds a LuaApi
    host_log,    \* what the host and the library have executed at start-up, in order
    detours,     \* hooks.rs: where each call of sys_msg_init_detour stands
    loads,       \* hooks.rs: where each call of load_script_functions_detour stands
    probe        \* two positions and the distances C3Vector::distance gave for them

hook_vars == <<SysMsgInitHook, LoadScriptFunctionsHook, HOOKS_INITIALIZED, LUA_API,
               host_log, detours, loads>>

vars == <<world, BLACKLIST, pc, in_world, arg, autoloot, player_pos, current, cands,
          updates, examined, found, candidate, calls, ret, err, hook_vars, probe>>

\* The variables of an invocation of the command.
\* The variables of an invocation other than where it stands and its error.
invocation_vars == <<in_world, arg, autoloot, player_pos, current, cands, updates,
                     examined, found, candidate, calls, ret>>

command_vars == <<pc, in_world, arg, autoloot, player_pos, current, cands, updates,
                  examined, found, candidate, calls, ret, err>>

find_vars == <<autoloot, player_pos, current, cands, updates, examined>>

Slots == {"lootable", "gameobject", "skinnable", "alive_unit"}

NewCandidates ==
    [lootable |-> Candidate_new, gameobject |-> Candidate_new,
     skinnable |-> Candidate_new, alive_unit |-> Candidate_new]

\* What the per-invocation variables hold while no invocation is running.
NoArg == [kind |-> "none", isnumber |-> 0, tonumber |-> 0]

NoPos == [x |-> 0, y |-> 0, z |-> 0]

\* No invocation of the command is running and none has run.
NoInvocation ==
    /\ pc = "idle"
    /\ in_world = FALSE
    /\ arg = NoArg
    /\ autoloot = 0
    /\ player_pos = NoPos
    /\ current = 0
    /\ cands = NewCandidates
    /\ updates = <<>>
    /\ examined = <<>>
    /\ found = "pending"
    /\ candidate = Candidate_new
    /\ calls = <<>>
    /\ ret = -1
    /\ err = ""

\* How many times e is in the record.
Count(log, e) == Cardinality({i \in DOMAIN log : log[i] = e})

\* The calls the host makes of SysMsgInitialize, and none of them begun.
DetourCalls == 1..MaxHostCalls

NoDetours == [t \in DetourCalls |-> "idle"]

\* The calls of LoadScriptFunctions the host makes from threads of its own,
\* and none of them begun.
LoadCalls == 1..MaxLoadThreads

NoLoads == [t \in LoadCalls |-> "idle"]

\* C3Vector::distance has not been applied to anything.
NoProbe == [a |-> NoPos, b |-> NoPos, applied |-> FALSE, ab |-> 0, ba |-> 0, aa |-> 0]

\* The library has been loaded and the host has gone through its start-up:
\* SysMsgInitialize and then LoadScriptFunctions have been called, both hooks
\* are in place and the command is registered.
Registered ==
    /\ SysMsgInitHook = "enabled"
    /\ LoadScriptFunctionsHook = "enabled"
    /\ HOOKS_INITIALIZED = TRUE
    /\ LUA_API = TRUE
    /\ host_log = <<"SysMsgInitialize", "logging_init", "init_all_hooks",
                    "LoadScriptFunctions", "LuaApi_new", "register_function">>
    /\ detours = [t \in DetourCalls |-> IF t = 1 THEN "returned" ELSE "idle"]
    /\ loads = [t \in LoadCalls |-> IF t = 1 THEN "returned" ELSE "idle"]
    /\ probe = NoProbe

\* The command can be called: the host has registered it.
Init ==
    /\ world \in Worlds
    /\ BLACKLIST = Lazy_new
    /\ Registered
    /\ NoInvocation

(***************************************************************************)
(* Mutant of Script_InteractNearest: the usage error is raised but the     *)
(* command goes on to find_best_candidate.                                 *)
(***************************************************************************)
Script_InteractNearest_goes_on(inw, a) ==
    /\ pc = "idle"
    /\ in_world' = inw
    /\ arg' = a
    /\ found' = "pending"
    /\ candidate' = Candidate_new
    /\ calls' = <<>>
    /\ IF ~inw
       THEN pc' = "returned" /\ ret' = 0 /\ err' = ""
       ELSE IF ~lua_isnumber(a)
       THEN pc' = "find" /\ ret' = -1 /\ err' = ERR_USAGE
       ELSE pc' = "find" /\ ret' = -1 /\ err' = ""
    /\ UNCHANGED <<probe, hook_vars, world, BLACKLIST, find_vars>>

(***************************************************************************)
(* Mutant of Script_InteractNearest: the argument is validated before the  *)
(* agent is looked for in the world.                                       *)
(***************************************************************************)
Script_InteractNearest_args_first(inw, a) ==
    /\ pc = "idle"
    /\ in_world' = inw
    /\ arg' = a
    /\ found' = "pending"
    /\ candidate' = Candidate_new
    /\ calls' = <<>>
    /\ IF ~lua_isnumber(a)
       THEN pc' = "error" /\ ret' = -1 /\ err' = ERR_USAGE
       ELSE IF ~inw
       THEN pc' = "returned" /\ ret' = 0 /\ err' = ""
       ELSE pc' = "find" /\ ret' = -1 /\ err' = ""
    /\ UNCHANGED <<probe, hook_vars, world, BLACKLIST, find_vars>>

(***************************************************************************)
(* scripts.rs: Script_InteractNearest, up to the call of                   *)
(* find_best_candidate.  The host calls the command with an argument while *)
(* the agent is or is not in the world.  lua.error does not return: the    *)
(* host's lua_error unwinds to the caller of the command.                  *)
(***************************************************************************)
\* The host calls the command only once it is registered; lua::api() panics
\* when LUA_API is empty.
Script_InteractNearest(inw, a) ==
    /\ pc = "idle"
    /\ Count(host_log, "register_function") > 0
    /\ in_world' = inw
    /\ arg' = a
    /\ found' = "pending"
    /\ candidate' = Candidate_new
    /\ calls' = <<>>
    /\ IF ~inw
       THEN pc' = "returned" /\ ret' = 0 /\ err' = ""
       ELSE IF ~LUA_API
       THEN pc' = "panic" /\ ret' = -1 /\ err' = ERR_NOT_INITIALIZED
       ELSE IF ~lua_isnumber(a)
       THEN pc' = "error" /\ ret' = -1 /\ err' = ERR_USAGE
       ELSE pc' = "find" /\ ret' = -1 /\ err' = ""
    /\ UNCHANGED <<probe, hook_vars, world, BLACKLIST, find_vars>>

(***************************************************************************)
(* Mutant of find_best_candidate_begin: the pass goes on when the agent's  *)
(* handle did not resolve, with the position read through the null handle. *)
(***************************************************************************)
find_best_candidate_begin_no_abort ==
    /\ pc = "find"
    /\ autoloot' = AsI32(lua_tonumber(arg))
    /\ LET player_guid == get_player_guid(world)
           player == get_object_pointer(world, player_guid)
       IN  \E m \in MemoryReads(world, player) :
               IF m # "read"
               THEN /\ pc' = m
                    /\ UNCHANGED <<player_pos, current, cands, updates, examined,
                                   found, ret>>
               ELSE /\ player_pos' = get_unit_position(world, player)
                    /\ cands' = NewCandidates
                    /\ updates' = <<>>
                    /\ current' = get_first_object(world)
                    /\ examined' = <<>>
                    /\ pc' = "scan"
                    /\ UNCHANGED <<found, ret>>
    /\ UNCHANGED <<probe, hook_vars, world, BLACKLIST, in_world, arg, candidate, calls, err>>

(***************************************************************************)
(* Mutant of find_best_candidate_begin: the four candidates are not        *)
(* created anew; the pass starts from what the last one left.              *)
(***************************************************************************)
find_best_candidate_begin_stale ==
    /\ pc = "find"
    /\ autoloot' = AsI32(lua_tonumber(arg))
    /\ LET player_guid == get_player_guid(world)
           player == get_object_pointer(world, player_guid)
       IN  IF player = 0
           THEN /\ found' = "None"
                /\ pc' = "returned"
                /\ ret' = 0
                /\ UNCHANGED <<player_pos, current, cands, updates, examined>>
           ELSE /\ player_pos' = get_unit_position(world, player)
                /\ cands' = cands
                /\ updates' = <<>>
                /\ current' = get_first_object(world)
                /\ examined' = <<>>
                /\ pc' = "scan"
                /\ UNCHANGED <<found, ret>>
    /\ UNCHANGED <<probe, hook_vars, world, BLACKLIST, in_world, arg, candidate, calls, err>>

(***************************************************************************)
(* scripts.rs: find_best_candidate, up to the traversal loop               *)
(***************************************************************************)
find_best_candidate_begin ==
    /\ pc = "find"
    /\ autoloot' = AsI32(lua_tonumber(arg))
    /\ LET player_guid == get_player_guid(world)
           player == get_object_pointer(world, player_guid)
       IN  IF player = 0
           THEN /\ found' = "None"
                /\ pc' = "returned"
                /\ ret' = 0
                /\ UNCHANGED <<player_pos, current, cands, updates, examined>>
           ELSE /\ player_pos' = get_unit_position(world, player)
                /\ cands' = NewCandidates
                /\ updates' = <<>>
                /\ current' = get_first_object(world)
                /\ examined' = <<>>
                /\ pc' = "scan"
                /\ UNCHANGED <<found, ret>>
    /\ UNCHANGED <<probe, hook_vars, world, BLACKLIST, in_world, arg, candidate, calls, err>>

(***************************************************************************)
(* scripts.rs: find_best_candidate, one iteration of the traversal loop    *)
(***************************************************************************)
\* Mutant of LoopGuard: only the null link ends the traversal.
LoopGuard_null_only(link) == link # 0

\* The condition of the `while`: the link is neither null nor tagged.
LoopGuard(link) == link # 0 /\ link % 2 = 0

\* Mutant of find_best_candidate_step: an entry whose handle does not resolve
\* ends the pass with nothing to do.
find_best_candidate_step_aborts ==
    /\ pc = "scan"
    /\ LoopGuard(current)
    /\ \E m \in MemoryReads(world, current) :
         IF m # "read"
         THEN /\ pc' = m
              /\ UNCHANGED <<cands, updates, BLACKLIST, current, examined, found, ret>>
         ELSE IF get_object_pointer(world, get_object_guid(world, current)) = 0
         THEN /\ found' = "None"
              /\ pc' = "returned"
              /\ ret' = 0
              /\ examined' = Append(examined, current)
              /\ UNCHANGED <<cands, updates, BLACKLIST, current>>
         ELSE /\ LET f == scan_entry(world, player_pos, current,
                        [lootable |-> cands.lootable, gameobject |-> cands.gameobject,
                         skinnable |-> cands.skinnable, alive_unit |-> cands.alive_unit,
                         updates |-> updates, blacklist |-> BLACKLIST])
                 IN  /\ cands' = [lootable |-> f.lootable, gameobject |-> f.gameobject,
                                  skinnable |-> f.skinnable, alive_unit |-> f.alive_unit]
                     /\ updates' = f.updates
                     /\ BLACKLIST' = f.blacklist
              /\ examined' = Append(examined, current)
              /\ current' = get_next_object(world, current)
              /\ UNCHANGED <<found, pc, ret>>
    /\ UNCHANGED <<probe, hook_vars, world, in_world, arg, autoloot, player_pos, candidate, calls, err>>

find_best_candidate_step ==
    /\ pc = "scan"
    /\ LoopGuard(current)
    /\ \E m \in MemoryReads(world, current) :
         IF m # "read"
         THEN /\ pc' = m
              /\ UNCHANGED <<cands, updates, BLACKLIST, examined, current>>
         ELSE LET f == scan_entry(world, player_pos, current,
                            [lootable |-> cands.lootable, gameobject |-> cands.gameobject,
                             skinnable |-> cands.skinnable, alive_unit |-> cands.alive_unit,
                             updates |-> updates, blacklist |-> BLACKLIST])
              IN  /\ cands' = [lootable |-> f.lootable, gameobject |-> f.gameobject,
                               skinnable |-> f.skinnable, alive_unit |-> f.alive_unit]
                  /\ updates' = f.updates
                  /\ BLACKLIST' = f.blacklist
                  /\ examined' = Append(examined, current)
                  /\ current' = get_next_object(world, current)
                  /\ pc' = pc
    /\ UNCHANGED <<probe, hook_vars, world, in_world, arg, autoloot, player_pos, found,
                   candidate, calls, ret, err>>

(***************************************************************************)
(* Mutant of find_best_candidate_select: with no valid candidate the       *)
(* command raises the scripting error.                                     *)
(***************************************************************************)
find_best_candidate_select_raises ==
    /\ pc = "scan"
    /\ ~LoopGuard(current)
    /\ LET winner == select_by_priority(cands)
       IN  IF Candidate_is_valid(winner)
           THEN /\ found' = "Some"
                /\ candidate' = winner
                /\ pc' = "act"
                /\ ret' = ret
                /\ err' = err
           ELSE /\ found' = "None"
                /\ candidate' = candidate
                /\ pc' = "error"
                /\ ret' = ret
                /\ err' = ERR_USAGE
    /\ UNCHANGED <<probe, hook_vars, world, BLACKLIST, in_world, arg, find_vars, calls>>

(***************************************************************************)
(* scripts.rs: find_best_candidate, the selection after the loop, and the  *)
(* `else return 0` of Script_InteractNearest when it returned None         *)
(***************************************************************************)
find_best_candidate_select ==
    /\ pc = "scan"
    /\ ~LoopGuard(current)
    /\ LET winner == select_by_priority(cands)
       IN  IF Candidate_is_valid(winner)
           THEN /\ found' = "Some"
                /\ candidate' = winner
                /\ pc' = "act"
                /\ ret' = ret
           ELSE /\ found' = "None"
                /\ candidate' = candidate
                /\ pc' = "returned"
                /\ ret' = 0
    /\ UNCHANGED <<probe, hook_vars, world, BLACKLIST, in_world, arg, find_vars, calls, err>>

(***************************************************************************)
(* scripts.rs: Script_InteractNearest, the interaction                     *)
(***************************************************************************)
set_target(guid) == [fn |-> "set_target", guid |-> guid, pointer |-> 0, autoloot |-> 0]

interact_unit(pointer, al) ==
    [fn |-> "interact_unit", guid |-> 0, pointer |-> pointer, autoloot |-> al]

interact_object(pointer, al) ==
    [fn |-> "interact_object", guid |-> 0, pointer |-> pointer, autoloot |-> al]

\* Mutant of perform_interaction: the creature is interacted with before it is
\* made the target.
perform_interaction_interact_first ==
    /\ pc = "act"
    /\ IF candidate.obj_type = "Unit"
       THEN /\ calls' = <<interact_unit(candidate.pointer, autoloot),
                          set_target(candidate.guid)>>
            /\ ret' = 1
       ELSE IF candidate.obj_type = "GameObject"
       THEN /\ calls' = <<interact_object(candidate.pointer, autoloot)>>
            /\ ret' = 1
       ELSE /\ calls' = calls
            /\ ret' = 0
    /\ pc' = "returned"
    /\ UNCHANGED <<probe, hook_vars, world, BLACKLIST, in_world, arg, find_vars, found, candidate, err>>

\* Mutant of perform_interaction: 0 is returned after a world object has been
\* interacted with.
perform_interaction_object_returns_0 ==
    /\ pc = "act"
    /\ IF candidate.obj_type = "Unit"
       THEN /\ calls' = <<set_target(candidate.guid),
                          interact_unit(candidate.pointer, autoloot)>>
            /\ ret' = 1
       ELSE IF candidate.obj_type = "GameObject"
       THEN /\ calls' = <<interact_object(candidate.pointer, autoloot)>>
            /\ ret' = 0
       ELSE /\ calls' = calls
            /\ ret' = 0
    /\ pc' = "returned"
    /\ UNCHANGED <<probe, hook_vars, world, BLACKLIST, in_world, arg, find_vars, found, candidate, err>>

\* Mutant of perform_interaction: the creature is interacted with twice.
perform_interaction_twice ==
    /\ pc = "act"
    /\ IF candidate.obj_type = "Unit"
       THEN /\ calls' = <<set_target(candidate.guid),
                          interact_unit(candidate.pointer, autoloot),
                          interact_unit(candidate.pointer, autoloot)>>
            /\ ret' = 1
       ELSE IF candidate.obj_type = "GameObject"
       THEN /\ calls' = <<interact_object(candidate.pointer, autoloot)>>
            /\ ret' = 1
       ELSE /\ calls' = calls
            /\ ret' = 0
    /\ pc' = "returned"
    /\ UNCHANGED <<probe, hook_vars, world, BLACKLIST, in_world, arg, find_vars, found, candidate, err>>

perform_interaction ==
    /\ pc = "act"
    /\ IF candidate.obj_type = "Unit"
       THEN /\ calls' = <<set_target(candidate.guid),
                          interact_unit(candidate.pointer, autoloot)>>
            /\ ret' = 1
       ELSE IF candidate.obj_type = "GameObject"
       THEN /\ calls' = <<interact_object(candidate.pointer, autoloot)>>
            /\ ret' = 1
       ELSE /\ calls' = calls
            /\ ret' = 0
    /\ pc' = "returned"
    /\ UNCHANGED <<probe, hook_vars, world, BLACKLIST, in_world, arg, find_vars, found, candidate, err>>

(***************************************************************************)
(* The host's script dispatch: the command has returned or raised, and the *)
(* host may call it again.  The locals of the invocation are discarded;    *)
(* the memory that held the four candidates keeps what was last written to *)
(* it until the next invocation writes there again.                        *)
(***************************************************************************)
HostResume ==
    /\ pc \in {"returned", "error"}
    /\ pc' = "idle"
    /\ in_world' = FALSE
    /\ arg' = NoArg
    /\ autoloot' = 0
    /\ player_pos' = NoPos
    /\ current' = 0
    /\ updates' = <<>>
    /\ examined' = <<>>
    /\ found' = "pending"
    /\ candidate' = Candidate_new
    /\ calls' = <<>>
    /\ ret' = -1
    /\ err' = ""
    /\ UNCHANGED <<probe, hook_vars, world, BLACKLIST, cands>>

(***************************************************************************)
(* scripts.rs: find_best_candidate as a whole, on a snapshot: the          *)
(* traversal loop from a link on, and the candidate returned               *)
(* (Candidate_new stands for None).                                        *)
(***************************************************************************)
RECURSIVE find_best_candidate_loop(_, _, _, _)
find_best_candidate_loop(w, plpos, link, f) ==
    IF LoopGuard(link)
    THEN find_best_candidate_loop(w, plpos, get_next_object(w, link),
                                  scan_entry(w, plpos, link, f))
    ELSE f

find_best_candidate(w) ==
    LET player == get_object_pointer(w, get_player_guid(w))
    IN  IF player = 0 THEN Candidate_new
        ELSE select_by_priority(
                 find_best_candidate_loop(
                     w, get_unit_position(w, player), get_first_object(w),
                     [lootable |-> Candidate_new, gameobject |-> Candidate_new,
                      skinnable |-> Candidate_new, alive_unit |-> Candidate_new,
                      updates |-> <<>>, blacklist |-> Lazy_new]))

Next ==
    \/ \E inw \in BOOLEAN, a \in LuaArgs : Script_InteractNearest(inw, a)
    \/ find_best_candidate_begin
    \/ find_best_candidate_step
    \/ find_best_candidate_select
    \/ perform_interaction
    \/ HostResume

Spec == Init /\ [][Next]_vars

(***************************************************************************)
(* The host's simulation goes on between two invocations of the command:   *)
(* the next invocation may find another snapshot.                          *)
(***************************************************************************)
WorldChanges ==
    /\ pc = "idle"
    /\ world' \in SceneWorlds
    /\ world' # world
    /\ UNCHANGED <<probe, hook_vars, BLACKLIST, command_vars>>

ScenesInit ==
    /\ world \in SceneWorlds
    /\ BLACKLIST = Lazy_new
    /\ Registered
    /\ NoInvocation

ScenesNext == Next \/ WorldChanges

\* The command called again and again while the snapshot changes.
ScenesSpec == ScenesInit /\ [][ScenesNext]_vars

(***************************************************************************)
(* lua.rs: init, and scripts.rs: register_functions, on the record of what *)
(* has been executed                                                       *)
(***************************************************************************)
\* Mutant of lua_init: a LuaApi is built and stored at every call.
lua_init_always(api, log) == [api |-> TRUE, log |-> Append(log, "LuaApi_new")]

\* LUA_API.get_or_init(|| LuaApi::new()): the closure runs while the cell is empty.
lua_init(api, log) ==
    IF api THEN [api |-> api, log |-> log]
    ELSE [api |-> TRUE, log |-> Append(log, "LuaApi_new")]

\* let lua = lua::api(), which panics while LUA_API is empty, and then
\* lua.register_function("InteractNearest", Script_InteractNearest)
register_functions(api, log) ==
    IF api THEN [panic |-> FALSE, log |-> Append(log, "register_function")]
    ELSE [panic |-> TRUE, log |-> log]

(***************************************************************************)
(* hooks.rs: sys_msg_init_detour.  The host calls SysMsgInitialize, which  *)
(* load() has hooked; init_all_hooks installs the LoadScriptFunctions hook *)
(* and succeeds or fails.                                                  *)
(***************************************************************************)
sys_msg_init_detour(ok) ==
    /\ SysMsgInitHook = "enabled"
    /\ Count(host_log, "SysMsgInitialize") < MaxHostCalls
    /\ IF HOOKS_INITIALIZED
       THEN /\ host_log' = Append(host_log, "SysMsgInitialize")
            /\ UNCHANGED <<HOOKS_INITIALIZED, LoadScriptFunctionsHook>>
       ELSE /\ HOOKS_INITIALIZED' = TRUE
            /\ host_log' = host_log \o <<"SysMsgInitialize", "logging_init",
                                          "init_all_hooks">>
            /\ LoadScriptFunctionsHook' = IF ok THEN "enabled" ELSE "failed"
    /\ UNCHANGED <<SysMsgInitHook, LUA_API, world, BLACKLIST, command_vars, detours,
                   loads, probe>>

(***************************************************************************)
(* hooks.rs: load_script_functions_detour.  The host calls                 *)
(* LoadScriptFunctions while the hook is in place.                         *)
(***************************************************************************)
\* Mutant of load_script_functions_detour: lua::init is not called before
\* register_functions.
load_script_functions_detour_no_init ==
    /\ LoadScriptFunctionsHook = "enabled"
    /\ Count(host_log, "LoadScriptFunctions") < MaxHostCalls
    /\ LET g == register_functions(LUA_API, Append(host_log, "LoadScriptFunctions"))
       IN  /\ LUA_API' = LUA_API
           /\ host_log' = g.log
           /\ pc' = IF g.panic THEN "panic" ELSE pc
           /\ err' = IF g.panic THEN ERR_NOT_INITIALIZED ELSE err
    /\ UNCHANGED <<SysMsgInitHook, LoadScriptFunctionsHook, HOOKS_INITIALIZED,
                   world, BLACKLIST, invocation_vars, detours, loads, probe>>

\* The whole detour, as the host runs it when one thread makes the call: the
\* original routine, lua::init, register_functions.
load_script_functions_detour ==
    /\ LoadScriptFunctionsHook = "enabled"
    /\ Count(host_log, "LoadScriptFunctions") < MaxHostCalls
    /\ LET r == lua_init(LUA_API, Append(host_log, "LoadScriptFunctions"))
           g == register_functions(r.api, r.log)
       IN  /\ LUA_API' = r.api
           /\ host_log' = g.log
           /\ pc' = IF g.panic THEN "panic" ELSE pc
           /\ err' = IF g.panic THEN ERR_NOT_INITIALIZED ELSE err
    /\ UNCHANGED <<SysMsgInitHook, LoadScriptFunctionsHook, HOOKS_INITIALIZED,
                   world, BLACKLIST, invocation_vars, detours, loads, probe>>

\* The host calls LoadScriptFunctions while the hook is not in place: only the
\* host's own routine runs.
LoadScriptFunctions_unhooked ==
    /\ LoadScriptFunctionsHook # "enabled"
    /\ Count(host_log, "LoadScriptFunctions") < MaxHostCalls
    /\ host_log' = Append(host_log, "LoadScriptFunctions")
    /\ UNCHANGED <<SysMsgInitHook, LoadScriptFunctionsHook, HOOKS_INITIALIZED,
                   LUA_API, world, BLACKLIST, command_vars, detours, loads, probe>>

\* The library has been loaded: DllMain has run load(), which has hooked
\* SysMsgInitialize.
HooksInit ==
    /\ SysMsgInitHook = "enabled"
    /\ LoadScriptFunctionsHook = "disabled"
    /\ HOOKS_INITIALIZED = FALSE
    /\ LUA_API = FALSE
    /\ host_log = <<>>
    /\ detours = NoDetours
    /\ loads = NoLoads
    /\ probe = NoProbe
    /\ world = [objs |-> <<>>, end |-> 0, term |-> 0, player_ok |-> TRUE,
                handle_offset |-> 0, player_at |-> Player.pos]
    /\ BLACKLIST = Lazy_new
    /\ NoInvocation

HooksNext ==
    \/ \E ok \in BOOLEAN : sys_msg_init_detour(ok)
    \/ load_script_functions_detour
    \/ LoadScriptFunctions_unhooked

\* The start-up of the host with the library loaded.
HooksSpec == HooksInit /\ [][HooksNext]_vars

(***************************************************************************)
(* hooks.rs: sys_msg_init_detour called by several threads of the host at  *)
(* once.  A call is cut where another call can come between: after the     *)
(* original routine, at the swap of HOOKS_INITIALIZED (one atomic          *)
(* read-modify-write), after logging::init and after init_all_hooks.       *)
(***************************************************************************)
\* SysMsgInitHook.call()
sys_msg_init_detour_call(t) ==
    /\ SysMsgInitHook = "enabled"
    /\ detours[t] = "idle"
    /\ host_log' = Append(host_log, "SysMsgInitialize")
    /\ detours' = [detours EXCEPT ![t] = "called"]
    /\ UNCHANGED <<SysMsgInitHook, LoadScriptFunctionsHook, HOOKS_INITIALIZED,
                   LUA_API, world, BLACKLIST, command_vars, loads, probe>>

\* Mutant of sys_msg_init_detour_swap: the flag is read and never set.
sys_msg_init_detour_swap_reads(t) ==
    /\ detours[t] = "called"
    /\ HOOKS_INITIALIZED' = HOOKS_INITIALIZED
    /\ detours' = [detours EXCEPT ![t] = IF HOOKS_INITIALIZED THEN "returned"
                                         ELSE "logging"]
    /\ UNCHANGED <<SysMsgInitHook, LoadScriptFunctionsHook, LUA_API, host_log,
                   world, BLACKLIST, command_vars, loads, probe>>

\* if HOOKS_INITIALIZED.swap(true, Ordering::SeqCst) { return; }
sys_msg_init_detour_swap(t) ==
    /\ detours[t] = "called"
    /\ HOOKS_INITIALIZED' = TRUE
    /\ detours' = [detours EXCEPT ![t] = IF HOOKS_INITIALIZED THEN "returned"
                                         ELSE "logging"]
    /\ UNCHANGED <<SysMsgInitHook, LoadScriptFunctionsHook, LUA_API, host_log,
                   world, BLACKLIST, command_vars, loads, probe>>

\* crate::logging::init()
sys_msg_init_detour_logging(t) ==
    /\ detours[t] = "logging"
    /\ host_log' = Append(host_log, "logging_init")
    /\ detours' = [detours EXCEPT ![t] = "hooks"]
    /\ UNCHANGED <<SysMsgInitHook, LoadScriptFunctionsHook, HOOKS_INITIALIZED,
                   LUA_API, world, BLACKLIST, command_vars, loads, probe>>

\* match init_all_hooks() { Ok(()) => ..., Err(e) => ... }: logged either way.
sys_msg_init_detour_hooks(t, ok) ==
    /\ detours[t] = "hooks"
    /\ host_log' = Append(host_log, "init_all_hooks")
    /\ LoadScriptFunctionsHook' = IF ok THEN "enabled" ELSE "failed"
    /\ detours' = [detours EXCEPT ![t] = "returned"]
    /\ UNCHANGED <<SysMsgInitHook, HOOKS_INITIALIZED, LUA_API, world, BLACKLIST,
                   command_vars, loads, probe>>

(***************************************************************************)
(* hooks.rs: load_script_functions_detour called by several threads of the *)
(* host at once, cut where another call can come between: after the        *)
(* original routine, after lua::init (OnceCell::get_or_init lets one       *)
(* caller run the closure while the others wait) and after                 *)
(* register_functions.                                                     *)
(***************************************************************************)
\* LoadScriptFunctionsHook.call()
load_script_functions_detour_call(t) ==
    /\ LoadScriptFunctionsHook = "enabled"
    /\ loads[t] = "idle"
    /\ host_log' = Append(host_log, "LoadScriptFunctions")
    /\ loads' = [loads EXCEPT ![t] = "called"]
    /\ UNCHANGED <<SysMsgInitHook, LoadScriptFunctionsHook, HOOKS_INITIALIZED,
                   LUA_API, world, BLACKLIST, command_vars, detours, probe>>

\* crate::lua::init()
load_script_functions_detour_init(t) ==
    /\ loads[t] = "called"
    /\ LET r == lua_init(LUA_API, host_log)
       IN  /\ LUA_API' = r.api
           /\ host_log' = r.log
    /\ loads' = [loads EXCEPT ![t] = "initialised"]
    /\ UNCHANGED <<SysMsgInitHook, LoadScriptFunctionsHook, HOOKS_INITIALIZED,
                   world, BLACKLIST, command_vars, detours, probe>>

\* crate::scripts::register_functions()
load_script_functions_detour_register(t) ==
    /\ loads[t] = "initialised"
    /\ LET g == register_functions(LUA_API, host_log)
       IN  /\ host_log' = g.log
           /\ pc' = IF g.panic THEN "panic" ELSE pc
           /\ err' = IF g.panic THEN ERR_NOT_INITIALIZED ELSE err
    /\ loads' = [loads EXCEPT ![t] = "returned"]
    /\ UNCHANGED <<SysMsgInitHook, LoadScriptFunctionsHook, HOOKS_INITIALIZED,
                   LUA_API, world, BLACKLIST, invocation_vars, detours, probe>>

\* A thread calls LoadScriptFunctions while the hook is not in place: only
\* the host's own routine runs.
LoadScriptFunctions_unhooked_call(t) ==
    /\ LoadScriptFunctionsHook # "enabled"
    /\ loads[t] = "idle"
    /\ host_log' = Append(host_log, "LoadScriptFunctions")
    /\ loads' = [loads EXCEPT ![t] = "returned"]
    /\ UNCHANGED <<SysMsgInitHook, LoadScriptFunctionsHook, HOOKS_INITIALIZED,
                   LUA_API, world, BLACKLIST, command_vars, detours, probe>>

ThreadsNext ==
    \/ \E t \in DetourCalls : sys_msg_init_detour_call(t)
    \/ \E t \in DetourCalls : sys_msg_init_detour_swap(t)
    \/ \E t \in DetourCalls : sys_msg_init_detour_logging(t)
    \/ \E t \in DetourCalls, ok \in BOOLEAN : sys_msg_init_detour_hooks(t, ok)
    \/ \E t \in LoadCalls : load_script_functions_detour_call(t)
    \/ \E t \in LoadCalls : load_script_functions_detour_init(t)
    \/ \E t \in LoadCalls : load_script_functions_detour_register(t)
    \/ \E t \in LoadCalls : LoadScriptFunctions_unhooked_call(t)

\* The start-up of a host that calls SysMsgInitialize from several threads.
ThreadsSpec == HooksInit /\ [][ThreadsNext]_vars

\* The start-up of the host and, between two steps of it, the command, which
\* the host runs to its end on the thread that runs the start-up.
LoadedInit ==
    /\ SysMsgInitHook = "enabled"
    /\ LoadScriptFunctionsHook = "disabled"
    /\ HOOKS_INITIALIZED = FALSE
    /\ LUA_API = FALSE
    /\ host_log = <<>>
    /\ detours = NoDetours
    /\ loads = NoLoads
    /\ probe = NoProbe
    /\ world \in {w \in SceneWorlds : Len(w.objs) = 1}
    /\ BLACKLIST = Lazy_new
    /\ NoInvocation

LoadedNext ==
    \/ pc = "idle" /\ HooksNext
    \/ Next

LoadedSpec == LoadedInit /\ [][LoadedNext]_vars

\* The command over snapshots in which the resolved handle may differ from
\* the list link.
HandlesInit ==
    /\ world \in HandleWorlds
    /\ BLACKLIST = Lazy_new
    /\ Registered
    /\ NoInvocation

HandlesSpec == HandlesInit /\ [][Next]_vars

\* The command over the snapshots of the range.
RangeInit ==
    /\ world \in RangeWorlds
    /\ BLACKLIST = Lazy_new
    /\ Registered
    /\ NoInvocation

RangeSpec == RangeInit /\ [][Next]_vars

\* The command over snapshots that hold objects of every kind.
KindsInit ==
    /\ world \in KindWorlds
    /\ BLACKLIST = Lazy_new
    /\ Registered
    /\ NoInvocation

KindsSpec == KindsInit /\ [][Next]_vars

(***************************************************************************)
(* game.rs: C3Vector::distance on its own, applied to two C3Vector whose   *)
(* coordinates are the f32 of a small grid of tenths, the largest finite   *)
(* f32, infinity or not a number.                                          *)
(***************************************************************************)
F32Values ==
    {F32_from_tenths(n) : n \in -MaxCoord..MaxCoord}
        \cup {F32_MAX, F32_INFINITY, F32_NAN}

C3Vectors == [x : F32Values, y : F32Values, z : F32Values]

distance_applied ==
    /\ ~probe.applied
    /\ probe' = [probe EXCEPT !.applied = TRUE,
                              !.ab = C3Vector_distance(probe.a, probe.b),
                              !.ba = C3Vector_distance(probe.b, probe.a),
                              !.aa = C3Vector_distance(probe.a, probe.a)]
    /\ UNCHANGED <<hook_vars, world, BLACKLIST, command_vars>>

DistanceInit ==
    /\ probe \in [a : C3Vectors, b : C3Vectors, applied : {FALSE},
                  ab : {0}, ba : {0}, aa : {0}]
    /\ world = [objs |-> <<>>, end |-> 0, term |-> 0, player_ok |-> TRUE,
                handle_offset |-> 0, player_at |-> Player.pos]
    /\ BLACKLIST = Lazy_new
    /\ SysMsgInitHook = "enabled"
    /\ LoadScriptFunctionsHook = "disabled"
    /\ HOOKS_INITIALIZED = FALSE
    /\ LUA_API = FALSE
    /\ host_log = <<>>
    /\ detours = NoDetours
    /\ loads = NoLoads
    /\ NoInvocation

DistanceSpec == DistanceInit /\ [][distance_applied]_vars

(***************************************************************************)
(* Notions the properties below are stated with.  They describe the world  *)
(* snapshot itself, not the code: distances are compared by the exact      *)
(* squares of the decimal coordinates.  For every object of Catalogue,     *)
(* KindCatalogue and SceneCatalogue the decimal distance is at most 5.0    *)
(* exactly when the f32 distance the code computes is; in the snapshots of *)
(* the range, where the two differ, the computed distance is used.         *)
(***************************************************************************)
\* The objects of the object manager, and those the visible-object list links.
MemObjs == {world.objs[i] : i \in DOMAIN world.objs}

ListObjs == {world.objs[i] : i \in 1..world.end}

ByGuid(guid) == CHOOSE o \in MemObjs : o.guid = guid

\* The square of the distance to the agent, in hundredths of a square yard.
SqDistance(o) ==
    (o.pos.x - world.player_at.x) * (o.pos.x - world.player_at.x)
    + (o.pos.y - world.player_at.y) * (o.pos.y - world.player_at.y)
    + (o.pos.z - world.player_at.z) * (o.pos.z - world.player_at.z)

\* Within 5.0 yards of the agent (25 square yards).
InRange(o) == SqDistance(o) <= 25 * 100

ExclusionIds == {179830, 179831, 179785, 179786}

\* The summoned-by identifier is non-zero and resolves to a player character.
SummonedByPlayer(o) ==
    /\ o.summoned_by # 0
    /\ \/ o.summoned_by = Player.guid /\ world.player_ok
       \/ \E p \in MemObjs : p.guid = o.summoned_by /\ p.resolves /\ p.type_raw = 4

HasLootFlag(o) == o.dynamic_flags % 2 = 1

HasSkinFlag(o) == (o.unit_flags \div 67108864) % 2 = 1

\* The priority class of an object by its attributes ("none": no class).
ClassOf(o) ==
    IF o.type_raw = 3 /\ o.health = 0 /\ HasLootFlag(o) THEN "lootable"
    ELSE IF o.type_raw = 5 /\ o.go_id \notin ExclusionIds THEN "gameobject"
    ELSE IF o.type_raw = 3 /\ o.health = 0 /\ HasSkinFlag(o) THEN "skinnable"
    ELSE IF o.type_raw = 3 /\ o.health > 0 THEN "alive_unit"
    ELSE "none"

\* The object may be selected: it resolves, no player summoned it, it is in range.
Selectable(o) == o.resolves /\ ~SummonedByPlayer(o) /\ InRange(o)

HasClass(cl) == \E o \in ListObjs : Selectable(o) /\ ClassOf(o) = cl

\* The object is eligible: selectable and of one of the four classes.
Eligible(o) == Selectable(o) /\ ClassOf(o) # "none"

\* The calls of update made on one candidate, in order.
CallsOn(slot) == SelectSeq(updates, LAMBDA u : u.cand = slot)

\* The list entries the loop body has run on.
ExaminedObjs == {ObjAt(world, examined[i]) : i \in DOMAIN examined}

\* A selection pass is under way or has returned.
InPass == pc \in {"scan", "act", "returned"} /\ in_world /\ world.player_ok

(***************************************************************************)
(* C1.  find_best_candidate returns the first valid candidate in the order *)
(* lootable remains > world object > skinnable remains > living creature:  *)
(* when a higher-priority class has a selectable object, the winner is of  *)
(* that class, however much closer the objects of lower classes are.       *)
(***************************************************************************)
C1_PriorityOrder ==
    found = "Some" =>
        LET won == ClassOf(ByGuid(candidate.guid))
        IN  /\ HasClass("lootable") => won = "lootable" /\ candidate = cands.lootable
            /\ ~HasClass("lootable") /\ HasClass("gameobject")
                 => won = "gameobject" /\ candidate = cands.gameobject
            /\ ~HasClass("lootable") /\ ~HasClass("gameobject") /\ HasClass("skinnable")
                 => won = "skinnable" /\ candidate = cands.skinnable
            /\ ~HasClass("lootable") /\ ~HasClass("gameobject") /\ ~HasClass("skinnable")
                 => won = "alive_unit" /\ candidate = cands.alive_unit

\* Lootable remains at 4.9 have won over a world object at 0.5.
C1_Witness ==
    /\ pc = "returned"
    /\ found = "Some"
    /\ ClassOf(ByGuid(candidate.guid)) = "lootable"
    /\ SqDistance(ByGuid(candidate.guid)) = 49 * 49
    /\ Candidate_is_valid(cands.gameobject)
    /\ SqDistance(ByGuid(cands.gameobject.guid)) = 5 * 5

(***************************************************************************)
(* C2.  Candidate::update is monotonic: over the calls made on one         *)
(* candidate its distance never increases, and it holds the entity of the  *)
(* first call that gave the least distance seen so far.                    *)
(***************************************************************************)
C2_HoldsFirstMinimum ==
    \A slot \in Slots :
        LET q == CallsOn(slot)
        IN  q # <<>> =>
              \E i \in DOMAIN q :
                  /\ \A j \in DOMAIN q : q[j].distance >= q[i].distance
                  /\ \A j \in 1..(i - 1) : q[j].distance > q[i].distance
                  /\ cands[slot] = [guid |-> q[i].guid, pointer |-> q[i].pointer,
                                    obj_type |-> q[i].obj_type,
                                    distance |-> q[i].distance]

C2_DistanceStep ==
    pc = "scan" => \A slot \in Slots : cands'[slot].distance <= cands[slot].distance

C2_UpdateMonotonic == [](C2_HoldsFirstMinimum) /\ [][C2_DistanceStep]_vars

\* Two calls at the same distance on one candidate: the first entity is kept.
C2_Witness ==
    \E slot \in Slots :
        LET q == CallsOn(slot)
        IN  /\ Len(q) = 2
            /\ q[1].distance = q[2].distance
            /\ q[1].guid # q[2].guid
            /\ cands[slot].guid = q[1].guid

(***************************************************************************)
(* C3.  A freshly constructed Candidate is invalid (kind None, distance    *)
(* the sentinel 1000.0, beyond the 5.0 range), the four candidates of a    *)
(* pass start fresh, and during a pass a candidate is valid exactly when   *)
(* update has recorded a selectable entity of its class into it.           *)
(***************************************************************************)
C3_ValidIffRecorded ==
    /\ ~Candidate_is_valid(Candidate_new)
    /\ Candidate_new.obj_type = "None"
    /\ Candidate_new.distance = INITIAL_DISTANCE
    /\ INITIAL_DISTANCE > MAX_DISTANCE
    /\ pc = "scan" /\ examined = <<>> => \A slot \in Slots : cands[slot] = Candidate_new
    /\ InPass =>
         /\ \A slot \in Slots : Candidate_is_valid(cands[slot]) <=> CallsOn(slot) # <<>>
         /\ \A i \in DOMAIN updates :
                /\ Selectable(ByGuid(updates[i].guid))
                /\ ClassOf(ByGuid(updates[i].guid)) = updates[i].cand

\* In the middle of a pass one candidate has become valid, another is still not.
C3_Witness ==
    /\ pc = "scan"
    /\ Len(examined) = 1
    /\ LoopGuard(current)
    /\ Candidate_is_valid(cands.skinnable)
    /\ ~Candidate_is_valid(cands.lootable)

(***************************************************************************)
(* C4.  An entity farther than 5.0 from the agent never updates any of the *)
(* four candidates, whatever its kind, vitality or flags, and the entity   *)
(* find_best_candidate returns is within 5.0 of the agent.                 *)
(***************************************************************************)
C4_OutOfRangeNeverUpdates ==
    /\ \A i \in DOMAIN updates :
           InRange(ByGuid(updates[i].guid)) /\ updates[i].distance <= MAX_DISTANCE
    /\ \A slot \in Slots :
           Candidate_is_valid(cands[slot]) => InRange(ByGuid(cands[slot].guid))
    /\ found = "Some" =>
           InRange(ByGuid(candidate.guid)) /\ candidate.distance <= MAX_DISTANCE

\* Lootable remains beyond the range were examined, and a living creature won.
C4_Witness ==
    /\ pc = "returned"
    /\ found = "Some"
    /\ ClassOf(ByGuid(candidate.guid)) = "alive_unit"
    /\ \E o \in ExaminedObjs :
           ~InRange(o) /\ o.resolves /\ ~SummonedByPlayer(o) /\ ClassOf(o) = "lootable"

(***************************************************************************)
(* C5.  An entity whose summoned-by identifier is non-zero and resolves to *)
(* a player character is never recorded and never selected.                *)
(***************************************************************************)
C5_PlayerSummonedNeverSelected ==
    /\ \A i \in DOMAIN updates : ~SummonedByPlayer(ByGuid(updates[i].guid))
    /\ found = "Some" => ~SummonedByPlayer(ByGuid(candidate.guid))

\* A player-summoned creature, in range and nearer than the winner, was passed over.
C5_Witness ==
    /\ pc = "returned"
    /\ found = "Some"
    /\ \E o \in ExaminedObjs :
           /\ SummonedByPlayer(o)
           /\ o.resolves /\ InRange(o)
           /\ ClassOf(o) = ClassOf(ByGuid(candidate.guid))
           /\ SqDistance(o) < SqDistance(ByGuid(candidate.guid))

(***************************************************************************)
(* C6.  A world object whose type id is in the exclusion set (179830,      *)
(* 179831, 179785, 179786) is never recorded and never selected, also when *)
(* it is the only entity in range; the exclusion set, once built, holds    *)
(* these four ids and never changes.                                       *)
(***************************************************************************)
C6_NeverSelected ==
    /\ BLACKLIST.init => BLACKLIST.value = ExclusionIds
    /\ \A i \in DOMAIN updates :
           LET o == ByGuid(updates[i].guid)
           IN  ~(o.type_raw = 5 /\ o.go_id \in ExclusionIds)
    /\ found = "Some" =>
           LET o == ByGuid(candidate.guid)
           IN  ~(o.type_raw = 5 /\ o.go_id \in ExclusionIds)
    /\ /\ pc = "returned"
       /\ InPass
       /\ \A o \in ListObjs : Selectable(o) => o.type_raw = 5 /\ o.go_id \in ExclusionIds
       => found = "None"

C6_NeverMutated == BLACKLIST.init => BLACKLIST' = BLACKLIST

C6_ExcludedNeverSelected == [](C6_NeverSelected) /\ [][C6_NeverMutated]_vars

\* An excluded world object, alone in range, was examined and nothing was selected.
C6_Witness ==
    /\ pc = "returned"
    /\ found = "None"
    /\ BLACKLIST.init
    /\ \E o \in ExaminedObjs :
           /\ o.type_raw = 5 /\ o.go_id = 179786
           /\ Selectable(o)
           /\ ListObjs = {o}

(***************************************************************************)
(* C7 as stated.  A creature in range with negative vitality is treated as *)
(* not dead: it updates the living-creature candidate, and alone in range  *)
(* it is returned as the living-creature winner.                           *)
(***************************************************************************)
C7_NegativeVitalityLiving ==
    InPass =>
        /\ \A o \in ExaminedObjs :
               Selectable(o) /\ o.type_raw = 3 /\ o.health < 0
               => \E i \in DOMAIN updates :
                      updates[i].guid = o.guid /\ updates[i].cand = "alive_unit"
        /\ \A o \in ListObjs :
               /\ pc = "returned"
               /\ ListObjs = {o}
               /\ Selectable(o) /\ o.type_raw = 3 /\ o.health < 0
               => found = "Some" /\ candidate.guid = o.guid

(***************************************************************************)
(* C7 amended.  A creature in range with negative vitality updates no      *)
(* candidate: process_unit takes neither the remains branch (vitality      *)
(* exactly zero) nor the living branch (vitality above zero).  It is never *)
(* selected, and alone in range it leaves the pass with nothing to do.     *)
(***************************************************************************)
C7_NegativeVitalityIgnored ==
    /\ \A i \in DOMAIN updates :
           LET o == ByGuid(updates[i].guid)
           IN  ~(o.type_raw = 3 /\ o.health < 0)
    /\ found = "Some" =>
           LET o == ByGuid(candidate.guid)
           IN  ~(o.type_raw = 3 /\ o.health < 0)
    /\ /\ pc = "returned"
       /\ InPass
       /\ \A o \in ListObjs : Selectable(o) => o.type_raw = 3 /\ o.health < 0
       => found = "None"

\* A creature with negative vitality, alone in range, was examined; nothing won.
C7_Witness ==
    /\ pc = "returned"
    /\ found = "None"
    /\ \E o \in ExaminedObjs :
           /\ Selectable(o) /\ o.type_raw = 3 /\ o.health < 0
           /\ ListObjs = {o}

(***************************************************************************)
(* C8.  A creature in range with positive vitality updates the             *)
(* living-creature candidate and no remains candidate, whatever its        *)
(* lootable and skinnable flags; alone in range it is the winner, of the   *)
(* living-creature class.                                                  *)
(***************************************************************************)
C8_LivingOnly ==
    InPass =>
        /\ \A i \in DOMAIN updates :
               LET o == ByGuid(updates[i].guid)
               IN  o.type_raw = 3 /\ o.health > 0 => updates[i].cand = "alive_unit"
        /\ \A o \in ExaminedObjs :
               Selectable(o) /\ o.type_raw = 3 /\ o.health > 0
               => \E i \in DOMAIN updates : updates[i].guid = o.guid
        /\ \A o \in ListObjs :
               /\ pc = "returned"
               /\ ListObjs = {o}
               /\ Selectable(o) /\ o.type_raw = 3 /\ o.health > 0
               => /\ found = "Some"
                  /\ candidate.guid = o.guid
                  /\ candidate = cands.alive_unit
                  /\ ~Candidate_is_valid(cands.lootable)
                  /\ ~Candidate_is_valid(cands.skinnable)

\* A living creature at 4.99 with both flags set, alone in range, has won.
C8_Witness ==
    /\ pc = "returned"
    /\ found = "Some"
    /\ SqDistance(ByGuid(candidate.guid)) = 47 * 47 + 16 * 16 + 5 * 5
    /\ candidate = cands.alive_unit
    /\ \E o \in ListObjs :
           /\ ListObjs = {o}
           /\ o.guid = candidate.guid
           /\ o.health > 0 /\ HasLootFlag(o) /\ HasSkinFlag(o)

(***************************************************************************)
(* C9.  A creature with vitality exactly zero goes to at most one remains  *)
(* class: with the lootable flag it updates the lootable-remains candidate *)
(* only (also when skinnable), otherwise with the skinnable flag the       *)
(* skinnable-remains candidate only.  No entity updates two candidates.    *)
(***************************************************************************)
C9_OneRemainsClass ==
    InPass =>
        /\ \A i \in DOMAIN updates :
               LET o == ByGuid(updates[i].guid)
               IN  o.type_raw = 3 /\ o.health = 0 =>
                     /\ HasLootFlag(o) => updates[i].cand = "lootable"
                     /\ ~HasLootFlag(o) => HasSkinFlag(o) /\ updates[i].cand = "skinnable"
        /\ \A i, j \in DOMAIN updates : updates[i].guid = updates[j].guid => i = j
        /\ \A o \in ExaminedObjs :
               /\ Selectable(o) /\ o.type_raw = 3 /\ o.health = 0
               /\ HasLootFlag(o) \/ HasSkinFlag(o)
               => \E i \in DOMAIN updates : updates[i].guid = o.guid

\* Remains with both flags were recorded as lootable and not as skinnable.
C9_Witness ==
    /\ pc = "returned"
    /\ ~Candidate_is_valid(cands.skinnable)
    /\ \E i \in DOMAIN updates :
           LET o == ByGuid(updates[i].guid)
           IN  /\ updates[i].cand = "lootable"
               /\ o.health = 0 /\ HasLootFlag(o) /\ HasSkinFlag(o)

(***************************************************************************)
(* C10.  With the agent in the world and the first argument absent or not  *)
(* numeric, Script_InteractNearest raises the scripting error with the     *)
(* message "Usage: InteractNearest(autoloot)" and does not proceed: no     *)
(* list entry is examined and no host primitive is called.                 *)
(***************************************************************************)
C10_Raised ==
    /\ pc # "idle" /\ in_world /\ arg.kind \in {"none", "string"} => pc = "error"
    /\ pc = "error" =>
           /\ in_world /\ arg.kind \in {"none", "string"}
           /\ err = "Usage: InteractNearest(autoloot)"
           /\ examined = <<>>
           /\ updates = <<>>
           /\ calls = <<>>
           /\ found = "pending"
           /\ ret = -1
    /\ err # "" => pc = "error"

C10_NoProceed == pc = "error" => pc' = "idle"

C10_UsageError == [](C10_Raised) /\ [][C10_NoProceed]_vars

\* The error was raised for a string argument, with entities in the list.
C10_Witness ==
    /\ pc = "error"
    /\ err = ERR_USAGE
    /\ arg.kind = "string"
    /\ in_world
    /\ \E o \in ListObjs : Selectable(o)

(***************************************************************************)
(* C11.  With the agent not in the world, Script_InteractNearest returns 0 *)
(* before it looks at its arguments: no usage error is raised, also for an *)
(* absent or non-numeric argument, no list entry is read and no host       *)
(* primitive is called.                                                    *)
(***************************************************************************)
C11_Returned ==
    pc # "idle" /\ ~in_world =>
        /\ pc = "returned"
        /\ ret = 0
        /\ err = ""
        /\ found = "pending"
        /\ examined = <<>>
        /\ updates = <<>>
        /\ calls = <<>>

C11_NoProceed == pc = "returned" /\ ~in_world => pc' = "idle"

C11_NotInWorld == [](C11_Returned) /\ [][C11_NoProceed]_vars

\* Not in the world, a string argument, a selectable entity in the list: 0 is returned.
C11_Witness ==
    /\ pc = "returned"
    /\ ~in_world
    /\ arg.kind = "string"
    /\ ret = 0
    /\ world.player_ok
    /\ \E o \in ListObjs : Selectable(o) /\ ClassOf(o) # "none"

(***************************************************************************)
(* C12.  With the agent in the world and a numeric argument, when the list *)
(* is empty or holds no entity that is both eligible and within range, the *)
(* command calls no primitive (no set_target, no interact), raises no      *)
(* error and returns 0 with nothing found.                                 *)
(***************************************************************************)
C12_NothingToDo ==
    /\ in_world
    /\ arg.kind = "number"
    /\ \A o \in ListObjs : ~Eligible(o)
    => /\ calls = <<>>
       /\ err = ""
       /\ pc \notin {"act", "error"}
       /\ pc = "returned" => ret = 0 /\ found = "None"

\* Every entry of a list of entities beyond the range was examined; nothing to do.
C12_Witness ==
    /\ pc = "returned"
    /\ in_world
    /\ arg.kind = "number"
    /\ world.player_ok
    /\ found = "None"
    /\ ret = 0
    /\ Len(examined) = 2
    /\ \A o \in ListObjs : ClassOf(o) # "none" /\ o.resolves /\ ~InRange(o)

(***************************************************************************)
(* C13.  When find_best_candidate returned a winner: for a creature        *)
(* (living or remains) the command first calls set_target with the         *)
(* winner's identifier and then interact_unit with the winner's handle and *)
(* the autoloot argument; for a world object it calls interact_object with *)
(* the winner's handle and the autoloot argument, and never set_target.    *)
(* Before the interaction no primitive has been called.                    *)
(***************************************************************************)
C13_ActionOrder ==
    /\ pc \in {"find", "scan", "act"} => calls = <<>>
    /\ pc = "returned" /\ found = "Some" =>
          LET o == ByGuid(candidate.guid)
              al == AsI32(arg.tonumber)
          IN  /\ o.type_raw \in {3, 5}
              /\ o.type_raw = 3 =>
                    /\ Len(calls) = 2
                    /\ calls[1] = [fn |-> "set_target", guid |-> o.guid,
                                   pointer |-> 0, autoloot |-> 0]
                    /\ calls[2] = [fn |-> "interact_unit", guid |-> 0,
                                   pointer |-> candidate.pointer, autoloot |-> al]
              /\ o.type_raw = 5 =>
                    /\ Len(calls) = 1
                    /\ calls[1] = [fn |-> "interact_object", guid |-> 0,
                                   pointer |-> candidate.pointer, autoloot |-> al]
                    /\ \A i \in DOMAIN calls : calls[i].fn # "set_target"
              /\ ObjAt(world, candidate.pointer) = o

\* Lootable remains have won with autoloot 2.7: set_target, then interact_unit with 2.
C13_Witness ==
    /\ pc = "returned"
    /\ found = "Some"
    /\ ClassOf(ByGuid(candidate.guid)) = "lootable"
    /\ arg.tonumber = 27
    /\ Len(calls) = 2
    /\ calls[1].fn = "set_target"
    /\ calls[2].fn = "interact_unit"
    /\ calls[2].autoloot = 2
    /\ \E o \in ListObjs : o.type_raw = 5 /\ Eligible(o)

(***************************************************************************)
(* C14.  When the agent's own identifier does not resolve to a handle,     *)
(* find_best_candidate returns nothing-to-do before it examines any list   *)
(* entry.  Nothing else aborts a pass: with the agent resolved, every pass *)
(* over a list that holds an eligible entity in range returns a winner,    *)
(* whatever entries of the list fail to resolve.                           *)
(***************************************************************************)
C14_PlayerUnresolved ==
    in_world /\ arg.kind = "number" =>
        /\ ~world.player_ok =>
              /\ pc \in {"find", "returned"}
              /\ examined = <<>>
              /\ updates = <<>>
              /\ calls = <<>>
              /\ pc = "returned" => found = "None" /\ ret = 0
        /\ world.player_ok /\ pc = "returned" =>
              /\ Len(examined) = world.end
              /\ (\E o \in ListObjs : Eligible(o)) => found = "Some"

\* The agent did not resolve; an eligible entity in range was in the list.
C14_Witness ==
    /\ pc = "returned"
    /\ in_world
    /\ arg.kind = "number"
    /\ ~world.player_ok
    /\ found = "None"
    /\ examined = <<>>
    /\ \E o \in ListObjs : Eligible(o)

(***************************************************************************)
(* C15.  A list entry whose handle fails to resolve is skipped and does    *)
(* not end the pass: the step that examines it updates no candidate and    *)
(* moves to the next link, no update is ever recorded for such an entity,  *)
(* and every later entry of the list is still examined.                    *)
(***************************************************************************)
C15_NeverRecorded ==
    /\ \A i \in DOMAIN updates : ByGuid(updates[i].guid).resolves
    /\ \A slot \in Slots :
           Candidate_is_valid(cands[slot]) => ByGuid(cands[slot].guid).resolves
    /\ pc \in {"act", "returned"} /\ InPass /\ arg.kind = "number" =>
           examined = [i \in 1..world.end |-> Link(world.objs[i])]

C15_SkipStep ==
    pc = "scan" /\ LoopGuard(current) /\ ~ObjAt(world, current).resolves =>
        /\ pc' = "scan"
        /\ cands' = cands
        /\ updates' = updates
        /\ examined' = Append(examined, current)
        /\ current' = get_next_object(world, current)
        /\ found' = found

C15_UnresolvedSkipped == [](C15_NeverRecorded) /\ [][C15_SkipStep]_vars

\* Unresolved lootable remains came first in the list; the entry after them has won.
C15_Witness ==
    /\ pc = "returned"
    /\ found = "Some"
    /\ Len(examined) = 2
    /\ ~ObjAt(world, examined[1]).resolves
    /\ InRange(ObjAt(world, examined[1]))
    /\ ClassOf(ObjAt(world, examined[1])) = "lootable"
    /\ candidate.guid = ObjAt(world, examined[2]).guid
    /\ ClassOf(ByGuid(candidate.guid)) = "alive_unit"

(***************************************************************************)
(* C16.  The traversal starts at the head of the list and stops at the     *)
(* first link that is null or has its lowest bit set: the entries before   *)
(* that link are examined once each, in list order, no entry at or behind  *)
(* it is examined, and the pass comes to its end: each iteration examines  *)
(* one more entry of the finite list, and at the terminal link the only    *)
(* step left leaves the loop.  No read is made where no object lies.       *)
(***************************************************************************)
C16_ExaminedPrefix ==
    /\ pc \notin {"fault", Undefined}
    /\ Len(examined) <= world.end
    /\ examined = [i \in 1..Len(examined) |-> Link(world.objs[i])]
    /\ pc = "scan" =>
          current = IF Len(examined) < world.end
                    THEN Link(world.objs[Len(examined) + 1])
                    ELSE TermLink(world)
    /\ pc = "scan" /\ Len(examined) = world.end =>
          current = 0 \/ current % 2 = 1
    /\ pc \in {"act", "returned"} /\ InPass /\ arg.kind = "number" =>
          Len(examined) = world.end

C16_OneMoreEntry ==
    /\ pc = "scan" /\ pc' = "scan" =>
          /\ LoopGuard(current)
          /\ Len(examined') = Len(examined) + 1
          /\ world.end - Len(examined') < world.end - Len(examined)
          /\ world.end - Len(examined') >= 0
    /\ pc = "scan" /\ ~LoopGuard(current) => pc' \in {"act", "returned"}

C16_TraversalEnds == [](C16_ExaminedPrefix) /\ [][C16_OneMoreEntry]_vars

\* The list ended at a tagged link with lootable remains in range behind it:
\* the one entry before the link was examined and has won.
C16_Witness ==
    /\ pc = "returned"
    /\ found = "Some"
    /\ world.term = 1
    /\ world.end = 1
    /\ Len(world.objs) = 2
    /\ examined = <<Link(world.objs[1])>>
    /\ candidate.guid = world.objs[1].guid
    /\ ClassOf(world.objs[1]) = "alive_unit"
    /\ ClassOf(world.objs[2]) = "lootable"
    /\ world.objs[2].resolves /\ InRange(world.objs[2])

(***************************************************************************)
(* C17.  is_player_summoned answers "not summoned" for a summoned-by       *)
(* identifier that is zero, that is non-zero but does not resolve, or that *)
(* resolves to an object of a kind other than Player: such an entity is    *)
(* not excluded.  In range and of a class, it is recorded when examined,   *)
(* and alone in the list it is the winner.                                 *)
(***************************************************************************)
C17_NotExcluded ==
    InPass /\ arg.kind = "number" =>
        /\ \A o \in ExaminedObjs :
               /\ ~SummonedByPlayer(o)
               /\ o.resolves /\ InRange(o) /\ ClassOf(o) # "none"
               => \E i \in DOMAIN updates :
                      updates[i].guid = o.guid /\ updates[i].cand = ClassOf(o)
        /\ \A o \in ListObjs :
               /\ pc = "returned"
               /\ ListObjs = {o}
               /\ o.summoned_by # 0 /\ ~SummonedByPlayer(o)
               /\ o.resolves /\ InRange(o) /\ ClassOf(o) # "none"
               => found = "Some" /\ candidate.guid = o.guid

\* The winner's summoned-by identifier is non-zero and resolves to nothing.
C17_Witness ==
    /\ pc = "returned"
    /\ found = "Some"
    /\ LET o == ByGuid(candidate.guid)
       IN  /\ o.summoned_by # 0
           /\ o.summoned_by # Player.guid
           /\ \A p \in MemObjs : p.guid # o.summoned_by

(***************************************************************************)
(* C18.  Every winner of find_best_candidate is of kind Unit or            *)
(* GameObject.  Objects of kind None (every raw value outside 1..7         *)
(* included), Item, Container, Player, DynamicObject and Corpse are never  *)
(* recorded and never selected, so the `_ => return 0` arm of the          *)
(* interaction is not reached: a winner is always interacted with.         *)
(***************************************************************************)
C18_WinnerKinds ==
    /\ \A v \in 0..8 : v \notin 1..7 => ObjectType_from(v) = "None"
    /\ \A i \in DOMAIN updates :
           /\ updates[i].obj_type \in {"Unit", "GameObject"}
           /\ ByGuid(updates[i].guid).type_raw = 3 <=> updates[i].obj_type = "Unit"
           /\ ByGuid(updates[i].guid).type_raw = 5 <=> updates[i].obj_type = "GameObject"
    /\ found = "Some" =>
           /\ candidate.obj_type \in {"Unit", "GameObject"}
           /\ ByGuid(candidate.guid).type_raw \in {3, 5}
    /\ pc = "returned" /\ found = "Some" => ret = 1 /\ calls # <<>>
    /\ /\ pc = "returned"
       /\ InPass
       /\ arg.kind = "number"
       /\ \A o \in ListObjs : o.type_raw \notin {3, 5}
       => found = "None"

\* An object of an unrecognized raw kind, with the lootable flag and nearer than
\* the winner, was examined; the winner is a creature.
C18_Witness ==
    /\ pc = "returned"
    /\ found = "Some"
    /\ candidate.obj_type = "Unit"
    /\ \E o \in ExaminedObjs :
           /\ o.type_raw = 8
           /\ o.health = 0 /\ HasLootFlag(o)
           /\ SqDistance(o) < SqDistance(ByGuid(candidate.guid))

(***************************************************************************)
(* What a pass over the snapshot has to select, from the snapshot alone:   *)
(* in the first class, in priority order, that has an eligible entity, the *)
(* entity nearest to the agent, the first in list order among equals.      *)
(***************************************************************************)
ExpectedClass ==
    IF HasClass("lootable") THEN "lootable"
    ELSE IF HasClass("gameobject") THEN "gameobject"
    ELSE IF HasClass("skinnable") THEN "skinnable"
    ELSE IF HasClass("alive_unit") THEN "alive_unit"
    ELSE "none"

InExpectedClass(o) == Eligible(o) /\ ClassOf(o) = ExpectedClass

ExpectedWinner ==
    world.objs[CHOOSE i \in 1..world.end :
                  /\ InExpectedClass(world.objs[i])
                  /\ \A j \in 1..world.end :
                         InExpectedClass(world.objs[j]) =>
                            \/ SqDistance(world.objs[i]) < SqDistance(world.objs[j])
                            \/ /\ SqDistance(world.objs[i]) = SqDistance(world.objs[j])
                               /\ i <= j]

ExpectedCalls(o, al) ==
    IF o.type_raw = 3
    THEN << [fn |-> "set_target", guid |-> o.guid, pointer |-> 0, autoloot |-> 0],
            [fn |-> "interact_unit", guid |-> 0, pointer |-> Link(o), autoloot |-> al] >>
    ELSE << [fn |-> "interact_object", guid |-> 0, pointer |-> Link(o), autoloot |-> al] >>

(***************************************************************************)
(* C19.  Selection carries no state from one call to the next: the four    *)
(* candidates are fresh (invalid) when a pass starts, and what an          *)
(* invocation selects and does is determined by the snapshot it runs on    *)
(* and its argument alone, so that two invocations on the same snapshot    *)
(* with the same argument select the same entity and make the same calls,  *)
(* whatever invocations, on whatever snapshots, ran before or in between.  *)
(***************************************************************************)
C19_NoCrossCallState ==
    /\ pc = "scan" /\ examined = <<>> => cands = NewCandidates
    /\ pc = "returned" =>
          IF in_world /\ arg.kind = "number" /\ world.player_ok
                /\ \E o \in ListObjs : Eligible(o)
          THEN /\ found = "Some"
               /\ candidate.guid = ExpectedWinner.guid
               /\ candidate.pointer = Link(ExpectedWinner)
               /\ calls = ExpectedCalls(ExpectedWinner, AsI32(arg.tonumber))
               /\ ret = 1
          ELSE /\ found # "Some"
               /\ calls = <<>>
               /\ ret = 0

\* A living creature has won on a snapshot without world objects, after earlier
\* invocations on other snapshots: one of them met a world object in range.
C19_Witness ==
    /\ pc = "returned"
    /\ found = "Some"
    /\ ClassOf(ExpectedWinner) = "alive_unit"
    /\ candidate.guid = ExpectedWinner.guid
    /\ \A o \in MemObjs : o.type_raw # 5
    /\ BLACKLIST.init

(***************************************************************************)
(* C20 as stated.  Registering the InteractNearest command and             *)
(* initializing the Lua accessor happen exactly once, however many times   *)
(* SysMsgInitialize and LoadScriptFunctions are called.                    *)
(***************************************************************************)
C20_ExactlyOnce ==
    /\ Count(host_log, "LuaApi_new") <= 1
    /\ Count(host_log, "register_function") <= 1

(***************************************************************************)
(* What the code does instead.  The Lua accessor is built at most once, by *)
(* the first call of the hooked LoadScriptFunctions, and the hook of       *)
(* LoadScriptFunctions is installed at most once, by the first call of     *)
(* SysMsgInitialize.  But lua::init is called and the command is           *)
(* registered at every call of LoadScriptFunctions made while the hook is  *)
(* in place: no guard stands before them.                                  *)
(***************************************************************************)
\* The calls of LoadScriptFunctions made after the attempt to install its hook.
HookedLoads ==
    {i \in DOMAIN host_log :
        /\ host_log[i] = "LoadScriptFunctions"
        /\ \E j \in 1..(i - 1) : host_log[j] = "init_all_hooks"}

Startup_Counts ==
    /\ Count(host_log, "LuaApi_new") <= 1
    /\ LUA_API <=> Count(host_log, "LuaApi_new") = 1
    /\ Count(host_log, "init_all_hooks") <= 1
    /\ Count(host_log, "logging_init") <= 1
    /\ HOOKS_INITIALIZED <=> Count(host_log, "init_all_hooks") = 1
    /\ Count(host_log, "register_function") =
          IF LoadScriptFunctionsHook = "enabled" THEN Cardinality(HookedLoads) ELSE 0
    /\ \A i \in DOMAIN host_log :
           host_log[i] = "register_function" =>
              /\ i > 1
              /\ host_log[i - 1] \in {"LoadScriptFunctions", "LuaApi_new"}
              /\ \E j \in 1..(i - 1) : host_log[j] = "LuaApi_new"

Startup_RegisteredAtEachLoad ==
    /\ LoadScriptFunctionsHook = "enabled"
    /\ Count(host_log', "LoadScriptFunctions") > Count(host_log, "LoadScriptFunctions")
    => Count(host_log', "register_function") = Count(host_log, "register_function") + 1

Startup_OncePerLoad == [](Startup_Counts) /\ [][Startup_RegisteredAtEachLoad]_vars

\* C20: SysMsgInitialize was called twice and the hooked LoadScriptFunctions
\* twice: one accessor, one installation, two registrations.
C20_Witness ==
    /\ Count(host_log, "SysMsgInitialize") = 2
    /\ Cardinality(HookedLoads) = 2
    /\ Count(host_log, "LuaApi_new") = 1
    /\ Count(host_log, "init_all_hooks") = 1
    /\ Count(host_log, "register_function") = 2

(***************************************************************************)
(* C21.  For all pairs of positions a and b, C3Vector::distance gives      *)
(* distance(a, b) == distance(b, a) and distance(a, a) == 0, with == the   *)
(* comparison of f32.  A position has real coordinates: three finite f32.  *)
(* The distance itself may be rounded, and may be infinite when the square *)
(* of a difference is beyond the largest f32.                              *)
(***************************************************************************)
C21_IsPosition(v) == F32_is_finite(v.x) /\ F32_is_finite(v.y) /\ F32_is_finite(v.z)

C21_SymmetricAndZero ==
    probe.applied =>
        /\ (C21_IsPosition(probe.a) /\ C21_IsPosition(probe.b))
               => F32_eq(probe.ab, probe.ba)
        /\ C21_IsPosition(probe.a) => F32_eq(probe.aa, 0)

\* Two positions that differ in two coordinates, at a distance that is
\* neither zero nor infinite.
C21_Witness ==
    /\ probe.applied
    /\ C21_IsPosition(probe.a)
    /\ C21_IsPosition(probe.b)
    /\ probe.a.x # probe.b.x
    /\ probe.a.y # probe.b.y
    /\ F32_lt(0, probe.ab)
    /\ F32_is_finite(probe.ab)
    /\ F32_eq(probe.ab, probe.ba)
    /\ F32_eq(probe.aa, 0)

(***************************************************************************)
(* C22.  The command changes the world only through set_target and the     *)
(* interact primitives: an invocation calls set_target at most once and an *)
(* interact primitive at most once, both on the winner only and only after *)
(* the selection; no step of the command changes the snapshot, and no      *)
(* other step calls a primitive.                                           *)
(***************************************************************************)
C22_Primitives(fns) == SelectSeq(calls, LAMBDA c : c.fn \in fns)

C22_AtMostOnceOnWinner ==
    /\ \A i \in DOMAIN calls : calls[i].fn \in {"set_target", "interact_unit", "interact_object"}
    /\ Len(C22_Primitives({"set_target"})) <= 1
    /\ Len(C22_Primitives({"interact_unit", "interact_object"})) <= 1
    /\ calls # <<>> =>
          /\ found = "Some"
          /\ candidate = select_by_priority(cands)
          /\ candidate.guid \in {o.guid : o \in ListObjs}
          /\ \A i \in DOMAIN calls :
                IF calls[i].fn = "set_target"
                THEN calls[i].guid = candidate.guid
                ELSE calls[i].pointer = candidate.pointer
                     /\ ObjAt(world, calls[i].pointer).guid = candidate.guid

C22_Frame ==
    /\ world' = world
    /\ calls' # calls => (pc = "act" \/ calls' = <<>>)

C22_FrameEffect == [](C22_AtMostOnceOnWinner) /\ [][C22_Frame]_vars

\* A creature has been made the target and interacted with, once each, while
\* another object of the list, a closer one, was left alone.
C22_Witness ==
    /\ pc = "returned"
    /\ Len(calls) = 2
    /\ calls[1] = set_target(candidate.guid)
    /\ calls[2] = interact_unit(candidate.pointer, autoloot)
    /\ \E o \in ListObjs : o.guid # candidate.guid /\ Eligible(o)
                              /\ SqDistance(o) < SqDistance(ByGuid(candidate.guid))

(***************************************************************************)
(* The distance from the agent to an object as the loop computes it: the   *)
(* f32 C3Vector::distance gives for the two positions read from memory.    *)
(***************************************************************************)
ComputedDistance(o) ==
    C3Vector_distance(C3Vector_from_tenths(world.player_at), C3Vector_from_tenths(o.pos))

(***************************************************************************)
(* C23.  Within the winning class the winner is at the least distance      *)
(* among the eligible in-range entities of that class in the list, and     *)
(* when several are at exactly that distance the winner is the first of    *)
(* them in traversal order.  Distances are compared as the f32 they are:   *)
(* of two entities whose distances differ by one f32 step the nearer wins, *)
(* wherever it stands in the list.                                         *)
(***************************************************************************)
C23_NearestFirst ==
    found = "Some" =>
        \E i \in 1..world.end :
            /\ world.objs[i].guid = candidate.guid
            /\ Eligible(world.objs[i])
            /\ F32_eq(candidate.distance, ComputedDistance(world.objs[i]))
            /\ \A j \in 1..world.end :
                  (Eligible(world.objs[j])
                   /\ ClassOf(world.objs[j]) = ClassOf(world.objs[i]))
                  => \/ F32_lt(ComputedDistance(world.objs[i]), ComputedDistance(world.objs[j]))
                     \/ /\ F32_eq(ComputedDistance(world.objs[i]), ComputedDistance(world.objs[j]))
                        /\ i <= j

\* Two entities of the winning class, at different places, at exactly the
\* same distance: the first of the list has won.
C23_Witness ==
    /\ pc = "returned"
    /\ found = "Some"
    /\ world.end = 2
    /\ world.objs[1].guid = candidate.guid
    /\ Eligible(world.objs[2])
    /\ ClassOf(world.objs[2]) = ClassOf(world.objs[1])
    /\ world.objs[2].pos # world.objs[1].pos
    /\ F32_eq(ComputedDistance(world.objs[2]), candidate.distance)

(***************************************************************************)
(* C24.  The range check is inclusive: an entity whose distance is exactly *)
(* 5.0 is in range, so that an otherwise eligible one updates the          *)
(* candidate of its class when the loop examines it, and is selected when  *)
(* it is the only eligible entity of the list; only a distance strictly    *)
(* greater than 5.0 makes the loop skip the entity, be it by one f32 step. *)
(* The distance is the f32 that C3Vector::distance computes.               *)
(***************************************************************************)
\* The entity resolves, no player summoned it and it has a class.
C24_Offered(o) == o.resolves /\ ~SummonedByPlayer(o) /\ ClassOf(o) # "none"

C24_AtTheRange(o) == C24_Offered(o) /\ F32_eq(ComputedDistance(o), MAX_DISTANCE)

C24_WithinRange(o) == C24_Offered(o) /\ F32_le(ComputedDistance(o), MAX_DISTANCE)

C24_InclusiveRange ==
    InPass =>
        /\ \A i \in DOMAIN examined :
              LET o == ObjAt(world, examined[i])
              IN  /\ C24_AtTheRange(o) =>
                        \E k \in DOMAIN updates :
                            /\ updates[k].guid = o.guid
                            /\ updates[k].distance = MAX_DISTANCE
                            /\ updates[k].cand = ClassOf(o)
                  /\ (\E k \in DOMAIN updates : updates[k].guid = o.guid)
                        <=> C24_WithinRange(o)
        /\ pc = "returned" =>
              \A o \in ListObjs :
                  (C24_AtTheRange(o) /\ \A q \in ListObjs : C24_WithinRange(q) => q = o)
                  => /\ found = "Some"
                     /\ candidate.guid = o.guid
                     /\ candidate.distance = MAX_DISTANCE
                     /\ ret = 1

\* A living creature at exactly 5.0 has won while the other entity of the
\* list, lootable remains one f32 step beyond 5.0 (at 5.0 in decimal), was
\* skipped.
C24_Witness ==
    /\ pc = "returned"
    /\ found = "Some"
    /\ ClassOf(ByGuid(candidate.guid)) = "alive_unit"
    /\ candidate.distance = MAX_DISTANCE
    /\ ret = 1
    /\ Len(examined) = 2
    /\ Len(updates) = 1
    /\ \E o \in ListObjs : /\ o.guid # candidate.guid
                              /\ ClassOf(o) = "lootable"
                              /\ C24_Offered(o)
                              /\ SqDistance(o) = 50 * 50
                              /\ ComputedDistance(o) = MAX_DISTANCE + 1

(***************************************************************************)
(* C25.  For any number and interleaving of calls of sys_msg_init_detour:  *)
(* the original SysMsgInitialize is called once per call of the detour;    *)
(* logging::init and init_all_hooks are executed at most once in total,    *)
(* and only by the call whose swap turned HOOKS_INITIALIZED from false to  *)
(* true; the flag never goes back, so nothing is retried, whether          *)
(* init_all_hooks succeeded or failed.                                     *)
(***************************************************************************)
C25_Begun == {t \in DetourCalls : detours[t] # "idle"}

C25_Initialising == {t \in DetourCalls : detours[t] \in {"logging", "hooks"}}

C25_Counts ==
    /\ Count(host_log, "SysMsgInitialize") = Cardinality(C25_Begun)
    /\ Count(host_log, "logging_init") <= 1
    /\ Count(host_log, "init_all_hooks") <= 1
    /\ Cardinality(C25_Initialising) <= 1
    /\ C25_Initialising # {} => HOOKS_INITIALIZED
    /\ Count(host_log, "init_all_hooks") = 1 =>
          /\ C25_Initialising = {}
          /\ HOOKS_INITIALIZED
          /\ LoadScriptFunctionsHook \in {"enabled", "failed"}
    /\ (\A t \in DetourCalls : detours[t] = "returned") /\ DetourCalls # {} =>
          /\ Count(host_log, "logging_init") = 1
          /\ Count(host_log, "init_all_hooks") = 1

C25_Steps ==
    /\ HOOKS_INITIALIZED => HOOKS_INITIALIZED'
    /\ \A t \in DetourCalls :
          /\ (detours[t] # "logging" /\ detours'[t] = "logging")
                => (~HOOKS_INITIALIZED /\ HOOKS_INITIALIZED')
          /\ (detours[t] = "called" /\ detours'[t] = "returned") => HOOKS_INITIALIZED
    /\ Count(host_log', "logging_init") > Count(host_log, "logging_init")
          => \E t \in DetourCalls : detours[t] = "logging" /\ detours'[t] = "hooks"
    /\ Count(host_log', "init_all_hooks") > Count(host_log, "init_all_hooks")
          => \E t \in DetourCalls : detours[t] = "hooks" /\ detours'[t] = "returned"
    /\ LoadScriptFunctionsHook = "failed" => LoadScriptFunctionsHook' = "failed"

C25_InitialisedOnce == [](C25_Counts) /\ [][C25_Steps]_vars

\* Two calls had run the original routine before either reached the swap;
\* every call has returned, one of them initialised, and init_all_hooks
\* failed: it was not run again.
C25_Witness ==
    /\ \A t \in DetourCalls : detours[t] = "returned"
    /\ Count(host_log, "SysMsgInitialize") = Cardinality(DetourCalls)
    /\ host_log[1] = "SysMsgInitialize"
    /\ host_log[2] = "SysMsgInitialize"
    /\ host_log[3] = "logging_init"
    /\ Count(host_log, "init_all_hooks") = 1
    /\ LoadScriptFunctionsHook = "failed"

(***************************************************************************)
(* C26.  Script_InteractNearest returns 1 exactly when it has invoked      *)
(* interact_unit or interact_object on a winner, and 0 in every other call *)
(* that returns: the agent is not in the world, the agent cannot be        *)
(* resolved, or no candidate is valid.  A call that has not returned has   *)
(* returned nothing.                                                       *)
(***************************************************************************)
C26_Interacted ==
    \E i \in DOMAIN calls : calls[i].fn \in {"interact_unit", "interact_object"}

C26_ReturnValue ==
    IF pc = "returned"
    THEN /\ ret \in {0, 1}
         /\ ret = 1 <=> C26_Interacted
         /\ ret = 1 => /\ found = "Some"
                        /\ calls[Len(calls)].pointer = candidate.pointer
                        /\ Eligible(ByGuid(candidate.guid))
         /\ ret = 0 <=> \/ ~in_world
                         \/ ~world.player_ok
                         \/ ~\E o \in ListObjs : Eligible(o)
    ELSE ret = -1

\* A world object has been interacted with and 1 returned.
C26_Witness ==
    /\ pc = "returned"
    /\ ret = 1
    /\ calls = <<interact_object(candidate.pointer, autoloot)>>
    /\ ClassOf(ByGuid(candidate.guid)) = "gameobject"

(***************************************************************************)
(* C27.  For every winner, creature as well as world object, the handle    *)
(* recorded in the Candidate and passed to the interaction primitive is    *)
(* the handle get_object_pointer resolved from the identifier of the       *)
(* entity during the pass, not the raw list link.  Violated: for a         *)
(* creature process_unit records the list link.                            *)
(***************************************************************************)
C27_ResolvedHandle ==
    found = "Some" =>
        /\ candidate.pointer = get_object_pointer(world, candidate.guid)
        /\ \A i \in DOMAIN calls :
              calls[i].fn \in {"interact_unit", "interact_object"}
              => calls[i].pointer = get_object_pointer(world, candidate.guid)

\* A creature has been interacted with through the list link, which is not
\* the handle that was resolved for it.
C27_Witness ==
    /\ pc = "returned"
    /\ found = "Some"
    /\ candidate.obj_type = "Unit"
    /\ calls = <<set_target(candidate.guid),
                 interact_unit(Link(ByGuid(candidate.guid)), autoloot)>>
    /\ Link(ByGuid(candidate.guid)) # get_object_pointer(world, candidate.guid)

(***************************************************************************)
(* C28.  Removing from the traversed list, handle resolution unchanged,    *)
(* an entity that is player-summoned, an excluded world object, out of     *)
(* range, of an unsupported kind, or a dead creature with neither flag,    *)
(* leaves the result of find_best_candidate unchanged; in particular an    *)
(* excluded world object in range never keeps skinnable remains or a       *)
(* living creature from being selected.                                    *)
(***************************************************************************)
\* The entity cannot be a candidate, for one of the five reasons.
C28_Ineffective(o) ==
    \/ SummonedByPlayer(o)
    \/ o.type_raw = 5 /\ o.go_id \in ExclusionIds
    \/ ~InRange(o)
    \/ o.type_raw \notin {3, 5}
    \/ o.type_raw = 3 /\ o.health = 0 /\ ~HasLootFlag(o) /\ ~HasSkinFlag(o)

\* The snapshot with the i-th entry unlinked from the list: the object stays
\* in the object manager, behind the end of the list.
C28_Without(w, i) ==
    [w EXCEPT !.objs = [k \in DOMAIN w.objs |->
                           IF k < i THEN w.objs[k]
                           ELSE IF k < w.end THEN w.objs[k + 1]
                           ELSE IF k = w.end THEN w.objs[i]
                           ELSE w.objs[k]],
              !.end = w.end - 1]

\* What the invocation got from find_best_candidate.
C28_Result == IF found = "Some" THEN candidate ELSE Candidate_new

C28_ExcludedInRange(o) ==
    o.type_raw = 5 /\ o.go_id \in ExclusionIds /\ o.resolves /\ InRange(o)

C28_RemovalInvariant ==
    (pc = "returned" /\ InPass) =>
        /\ C28_Result = find_best_candidate(world)
        /\ \A i \in 1..world.end :
              C28_Ineffective(world.objs[i])
              => find_best_candidate(C28_Without(world, i)) = C28_Result
        /\ ((\E o \in ListObjs : C28_ExcludedInRange(o))
             /\ ~HasClass("lootable") /\ ~HasClass("gameobject")
             /\ (HasClass("skinnable") \/ HasClass("alive_unit")))
            => /\ found = "Some"
               /\ ClassOf(ByGuid(candidate.guid)) \in {"skinnable", "alive_unit"}

\* Skinnable remains have won although an excluded world object is closer.
C28_Witness ==
    /\ pc = "returned"
    /\ found = "Some"
    /\ ClassOf(ByGuid(candidate.guid)) = "skinnable"
    /\ \E i \in 1..world.end :
          /\ C28_ExcludedInRange(world.objs[i])
          /\ SqDistance(world.objs[i]) < SqDistance(ByGuid(candidate.guid))
          /\ find_best_candidate(C28_Without(world, i)) = candidate

(***************************************************************************)
(* C29.  The selection does not depend on the order of the list, provided  *)
(* no two eligible in-range entities of the winning class are at exactly   *)
(* the same, least, distance: every permutation of the list yields the     *)
(* same winner and the same class (or no winner, when there was none).     *)
(***************************************************************************)
\* The snapshots whose list holds the same entries in another order.
C29_Permutations(w) ==
    {[w EXCEPT !.objs = [k \in DOMAIN w.objs |->
                            IF k <= w.end THEN w.objs[p[k]] ELSE w.objs[k]]] :
        p \in {q \in [1..w.end -> 1..w.end] :
                  \A a, b \in 1..w.end : a # b => q[a] # q[b]}}

\* Two entities of the winning class are at the distance of the winner.
C29_Tie ==
    /\ found = "Some"
    /\ \E a, b \in ListObjs :
          /\ a # b
          /\ Eligible(a) /\ Eligible(b)
          /\ ClassOf(a) = ClassOf(ByGuid(candidate.guid))
          /\ ClassOf(b) = ClassOf(a)
          /\ F32_eq(ComputedDistance(a), candidate.distance)
          /\ F32_eq(ComputedDistance(b), candidate.distance)

C29_OrderIndependent ==
    (pc = "returned" /\ InPass /\ ~C29_Tie) =>
        \A w \in C29_Permutations(world) :
            LET other == find_best_candidate(w)
            IN  IF found = "Some"
                THEN /\ other.guid = candidate.guid
                     /\ other.obj_type = candidate.obj_type
                     /\ other.distance = candidate.distance
                ELSE other = Candidate_new

\* The winner is the second entry of the list, the first being a farther
\* entity of the same class: with the two in the other order it wins too.
C29_Witness ==
    /\ pc = "returned"
    /\ found = "Some"
    /\ world.end = 2
    /\ world.objs[2].guid = candidate.guid
    /\ Eligible(world.objs[1])
    /\ ClassOf(world.objs[1]) = ClassOf(world.objs[2])
    /\ F32_lt(candidate.distance, ComputedDistance(world.objs[1]))
    /\ Cardinality(C29_Permutations(world)) = 2

(***************************************************************************)
(* C30.  Whenever the command is registered, LUA_API has already been      *)
(* initialised: lua::init runs before register_functions in the detour of  *)
(* LoadScriptFunctions, so that lua::api() in Script_InteractNearest never *)
(* panics.                                                                 *)
(***************************************************************************)
C30_FirstOf(e) == CHOOSE i \in DOMAIN host_log :
                      host_log[i] = e /\ \A j \in 1..(i - 1) : host_log[j] # e

C30_InitialisedWhenRegistered ==
    /\ Count(host_log, "register_function") > 0 =>
          /\ LUA_API
          /\ Count(host_log, "LuaApi_new") > 0
          /\ C30_FirstOf("LuaApi_new") < C30_FirstOf("register_function")
    /\ pc # "idle" => Count(host_log, "register_function") > 0
    /\ pc # "panic"
    /\ err # ERR_NOT_INITIALIZED

\* After the start-up from a freshly loaded library the command has been
\* called with the agent in the world, has got the Lua API and has returned.
C30_Witness ==
    /\ host_log = <<"SysMsgInitialize", "logging_init", "init_all_hooks",
                    "LoadScriptFunctions", "LuaApi_new", "register_function">>
    /\ pc = "returned"
    /\ in_world
    /\ ret = 1

====
